---------------------------- MODULE Spec2Model ----------------------------
(***************************************************************************)
(* Model of the derivative grapher (mkeremgs/turev).                       *)
(*                                                                         *)
(* Sources: src/script.js (component DerivativeGrapher, with the self      *)
(* tests) and src/unnamed/part_000, which holds two further variants of    *)
(* the same component: lines 1-593 (App with the locked tangent, the jump  *)
(* test and the hole markers) and lines 595-909 (App, line for line the    *)
(* logic of src/script.js without the self tests).                         *)
(*                                                                         *)
(* Numbers.  A JavaScript number is modelled as a record [k, v]: k is the  *)
(* kind ("fin", "nan", "pinf", "ninf") and v, for a finite number, its     *)
(* exact value as a polynomial in eps = 10^-5 with rational coefficients   *)
(* (a sequence of terms <<e, p, q>> standing for (p/q) * eps^e, ordered by *)
(* e, p # 0, q > 0, gcd(p, q) = 1).  The literals of the code that are far *)
(* below 1 are powers of eps: 1e-5 = eps, 1e-6 = eps/10, 1e-9 = 10 eps^2.  *)
(* The constant 1e20 is eps^-4.                                            *)
(* Arithmetic is exact as long as the coefficients fit the integers of the *)
(* model checker and rounded to about four digits beyond (see Precision).  *)
(* Of the rounding of IEEE doubles, which is far finer, the model has one  *)
(* effect: a sum loses a term that is 10^-17 of it or less (see            *)
(* RoundedSum).  The sign of zero is not modelled.                         *)
(* Two values are ordered by the sign of the                               *)
(* lowest-order term of their difference, which is the order of the reals  *)
(* as long as the coefficients stay within a factor 10^5 of each other     *)
(* (they do: every coefficient of the model lies between 10^-3 and 10^4).  *)
(***************************************************************************)
EXTENDS Integers, Sequences, FiniteSets, TLC

(* The state: see the component below.  view, ticks, curve, holes and      *)
(* estimate are the locals of the functions that are followed on their     *)
(* own, and ranges is the table of the range estimator (see                *)
(* RangeTableBody).                                                        *)
VARIABLES variant, mounted, expr, xMin, xMax, samples, showDerivative, showTangent,
          lockTangent, tangentX, hoverX, error, yRange, dRange, passes, event, events,
          stage, given, arg, compiled, result,
          view, ticks, curve, holes, estimate, ranges

(***************************************************************************)
(* The operators of the model that are used in many places are applied     *)
(* through Apply: Apply(name, args) is the operator called name applied to *)
(* the arguments args, and the definition of that operator is the one      *)
(* called <name>Body below.  Apply is recursive, so TLC keeps one copy of  *)
(* these definitions for each use of the model's functions in an action    *)
(* instead of one copy for each path of calls that leads to them.          *)
(***************************************************************************)
RECURSIVE Apply(_, _)

PAdd(a, b) == Apply("PAdd", <<a, b>>)
PSub(a, b) == Apply("PSub", <<a, b>>)
PTermMul(t, b) == Apply("PTermMul", <<t, b>>)
PMul(a, b) == Apply("PMul", <<a, b>>)
PLess(a, b) == Apply("PLess", <<a, b>>)
PLeq(a, b) == Apply("PLeq", <<a, b>>)
PLongDiv(a, b, n) == Apply("PLongDiv", <<a, b, n>>)
PDiv(a, b) == Apply("PDiv", <<a, b>>)
JAdd(a, b) == Apply("JAdd", <<a, b>>)
JSub(a, b) == Apply("JSub", <<a, b>>)
JMul(a, b) == Apply("JMul", <<a, b>>)
JDiv(a, b) == Apply("JDiv", <<a, b>>)
JLess(a, b) == Apply("JLess", <<a, b>>)
JLeq(a, b) == Apply("JLeq", <<a, b>>)
MathMax(a, b) == Apply("MathMax", <<a, b>>)
MathMin(a, b) == Apply("MathMin", <<a, b>>)
CallFn(fn, x) == Apply("CallFn", <<fn, x>>)
Evaluate(node, x) == Apply("Evaluate", <<node, x>>)
MathParse(src) == Apply("MathParse", <<src>>)
MathDerivative(src) == Apply("MathDerivative", <<src>>)
SampledRange(fn, a, b, n) == Apply("SampledRange", <<fn, a, b, n>>)
f(s) == Apply("f", <<s>>)
df(s) == Apply("df", <<s>>)
DrawPass(v, s) == Apply("DrawPass", <<v, s>>)
parseFloat(text) == Apply("parseFloat", <<text>>)
SamplesOf(text) == Apply("SamplesOf", <<text>>)
HoverAt(sx, sy, s) == Apply("HoverAt", <<sx, sy, s>>)
AfterEffects(p, s, first) == Apply("AfterEffects", <<p, s, first>>)
Passes(v, p, s, first) == Apply("Passes", <<v, p, s, first>>)
SelfTest(c, x) == Apply("SelfTest", <<c, x>>)
SinP(v) == Apply("SinP", <<v>>)
RangeTable(texts) == Apply("RangeTable", <<texts>>)
Handled(name, input, p) == Apply("Handled", <<name, input, p>>)
Rendered(v, p, name, input, first) == Apply("Rendered", <<v, p, name, input, first>>)
HoleStepped(w) == Apply("HoleStepped", <<w>>)
HoleAt(w, x, h) == Apply("HoleAt", <<w, x, h>>)
HoleProbed(w, x, h, ym, y0, yp) == Apply("HoleProbed", <<w, x, h, ym, y0, yp>>)
HolesBegun(text, a, b, count) == Apply("HolesBegun", <<text, a, b, count>>)
CurveStepped(c) == Apply("CurveStepped", <<c>>)
RangeBegun(text, a, b, count) == Apply("RangeBegun", <<text, a, b, count>>)
RangeStepped(r) == Apply("RangeStepped", <<r>>)
RangeReturned(r) == Apply("RangeReturned", <<r>>)
CurveBegun(v, text, a, b, n) == Apply("CurveBegun", <<v, text, a, b, n>>)
TicksBegun(min, max, target) == Apply("TicksBegun", <<min, max, target>>)
TickDue(t) == Apply("TickDue", <<t>>)
TickPushed(t) == Apply("TickPushed", <<t>>)
FloorTo(c, m) == Apply("FloorTo", <<c, m>>)
CarryOf(c, m) == Apply("CarryOf", <<c, m>>)
DecadeBelow(v) == Apply("DecadeBelow", <<v>>)
NiceStep(step0, pow10) == Apply("NiceStep", <<step0, pow10>>)
SpanOf(min, max) == Apply("SpanOf", <<min, max>>)
worldToScreen(x, y, W, H, xMin_, xMax_, yMin_, yMax_) ==
  Apply("worldToScreen", <<x, y, W, H, xMin_, xMax_, yMin_, yMax_>>)
screenToWorld(sx, sy, W, H, xMin_, xMax_, yMin_, yMax_) ==
  Apply("screenToWorld", <<sx, sy, W, H, xMin_, xMax_, yMin_, yMax_>>)

(***************************************************************************)
(* Rationals <<p, q>>.                                                     *)
(***************************************************************************)
IAbs(n) == IF n < 0 THEN -n ELSE n

RECURSIVE Gcd(_, _)
Gcd(a, b) == IF b = 0 THEN a ELSE Gcd(b, a % b)

RNorm(p, q) ==
  LET g == Gcd(IAbs(p), IAbs(q))
      s == IF q < 0 THEN -1 ELSE 1
  IN  <<(s * p) \div g, (s * q) \div g>>

(* The integers of the model checker have 32 bits.  A sum or a product is  *)
(* exact whenever its numerator and denominator fit; otherwise the         *)
(* operands are first rounded to numerators and denominators of at most    *)
(* Precision, which is a relative rounding error of about 1 / Precision.   *)
MaxInt == (2^30 - 1) + 2^30
Precision == 30000
Fits(m, n) == m = 0 \/ n = 0 \/ IAbs(m) <= MaxInt \div IAbs(n)

Shrink(a) ==
  LET big == IF IAbs(a[1]) > a[2] THEN IAbs(a[1]) ELSE a[2]
      k == big \div Precision + 1
      p == (IAbs(a[1]) + k \div 2) \div k
      q == (a[2] + k \div 2) \div k
  IN  IF big <= Precision THEN a
      ELSE RNorm((IF a[1] < 0 THEN -1 ELSE 1) * p, IF q = 0 THEN 1 ELSE q)

RAdd(a, b) ==
  LET g == Gcd(a[2], b[2])
      sa == Shrink(a)
      sb == Shrink(b)
  IN  IF /\ Fits(a[1], b[2] \div g) /\ Fits(b[1], a[2] \div g) /\ Fits(a[2] \div g, b[2])
         /\ IAbs(a[1] * (b[2] \div g)) <= MaxInt - IAbs(b[1] * (a[2] \div g))
      THEN RNorm(a[1] * (b[2] \div g) + b[1] * (a[2] \div g), (a[2] \div g) * b[2])
      ELSE RNorm(sa[1] * sb[2] + sb[1] * sa[2], sa[2] * sb[2])

RMul(a, b) ==
  LET g1 == Gcd(IAbs(a[1]), b[2])
      g2 == Gcd(IAbs(b[1]), a[2])
      sa == Shrink(a)
      sb == Shrink(b)
  IN  IF a[1] = 0 \/ b[1] = 0 THEN <<0, 1>>
      ELSE IF Fits(a[1] \div g1, b[1] \div g2) /\ Fits(a[2] \div g2, b[2] \div g1)
      THEN <<(a[1] \div g1) * (b[1] \div g2), (a[2] \div g2) * (b[2] \div g1)>>
      ELSE RNorm(sa[1] * sb[1], sa[2] * sb[2])

RInv(a) == IF a[1] < 0 THEN <<-a[2], -a[1]>> ELSE <<a[2], a[1]>>

(* floor and ceiling of p/q, q > 0 *)
RFloor(a) == IF a[1] >= 0 THEN a[1] \div a[2] ELSE -((-a[1] + a[2] - 1) \div a[2])
RCeil(a) == -RFloor(<<-a[1], a[2]>>)

(***************************************************************************)
(* Polynomials in eps: the finite values.                                  *)
(***************************************************************************)
PZero == <<>>
PRat(p, q) == LET r == RNorm(p, q) IN IF r[1] = 0 THEN <<>> ELSE <<<<0, r[1], r[2]>>>>
PInt(n) == PRat(n, 1)
PEps(e, p, q) == LET r == RNorm(p, q) IN IF r[1] = 0 THEN <<>> ELSE <<<<e, r[1], r[2]>>>>

PAddBody(a, b) ==
  IF a = <<>> THEN b
  ELSE IF b = <<>> THEN a
  ELSE LET ta == Head(a)
           tb == Head(b)
       IN  IF ta[1] < tb[1] THEN <<ta>> \o PAdd(Tail(a), b)
           ELSE IF tb[1] < ta[1] THEN <<tb>> \o PAdd(a, Tail(b))
           ELSE LET s == RAdd(<<ta[2], ta[3]>>, <<tb[2], tb[3]>>)
                IN  IF s[1] = 0 THEN PAdd(Tail(a), Tail(b))
                    ELSE <<<<ta[1], s[1], s[2]>>>> \o PAdd(Tail(a), Tail(b))

PNeg(a) == [i \in 1..Len(a) |-> <<a[i][1], -a[i][2], a[i][3]>>]
PSubBody(a, b) == PAdd(a, PNeg(b))

(* the term t times the polynomial b (a product rounded to 0 is no term) *)
PTermMulBody(t, b) ==
  LET prod == [i \in 1..Len(b) |->
                 LET r == RMul(<<t[2], t[3]>>, <<b[i][2], b[i][3]>>)
                 IN  <<t[1] + b[i][1], r[1], r[2]>>]
  IN  SelectSeq(prod, LAMBDA u : u[2] # 0)

PMulBody(a, b) ==
  IF a = <<>> \/ b = <<>> THEN <<>>
  ELSE IF Len(a) = 1 THEN PTermMul(a[1], b)
  ELSE PAdd(PTermMul(Head(a), b), PMul(Tail(a), b))

PSign(a) == IF a = <<>> THEN 0 ELSE IF a[1][2] < 0 THEN -1 ELSE 1
PLessBody(a, b) == PSign(PSub(a, b)) < 0
PLeqBody(a, b) == PSign(PSub(a, b)) <= 0
PAbs(a) == IF PSign(a) < 0 THEN PNeg(a) ELSE a

(* Quotient terms kept by a division whose divisor has more than one term  *)
(* (a division by a single term is exact).                                 *)
DivTerms == 4

(* a / b, b # 0, by long division in ascending powers of eps *)
PLongDivBody(a, b, n) ==
  IF a = <<>> \/ n = 0 THEN <<>>
  ELSE LET r == RMul(<<a[1][2], a[1][3]>>, RInv(<<b[1][2], b[1][3]>>))
           t == <<a[1][1] - b[1][1], r[1], r[2]>>
       IN  <<t>> \o PLongDiv(PSub(Tail(a), PTermMul(t, Tail(b))), b, n - 1)

PDivBody(a, b) == PLongDiv(a, b, IF Len(b) = 1 THEN Len(a) ELSE DivTerms)

(***************************************************************************)
(* JavaScript numbers and the values an evaluation can produce.            *)
(***************************************************************************)
Fin(p) == [k |-> "fin", v |-> p]
NaN == [k |-> "nan", v |-> <<>>]
PosInf == [k |-> "pinf", v |-> <<>>]
NegInf == [k |-> "ninf", v |-> <<>>]
(* a mathjs Complex (log of a negative number): an object, not a number *)
Complex == [k |-> "complex", v |-> <<>>]
(* the evaluation threw *)
Thrown == [k |-> "throw", v |-> <<>>]
(* null (no hover position) *)
Null == [k |-> "null", v |-> <<>>]

Num(n) == Fin(PInt(n))
Rat(p, q) == Fin(PRat(p, q))
(* p/q + (r/s) * eps^2, for fractions in lowest terms that are not 0 *)
WithEps2(p, q, r, s) == Fin(<<<<0, p, q>>, <<2, r, s>>>>)

(* Number.isFinite *)
IsFinite(a) == a.k = "fin"
IsInf(a) == a.k \in {"pinf", "ninf"}
(* -1, 0, 1 for a finite or infinite number *)
Sgn(a) == CASE a.k = "pinf" -> 1 [] a.k = "ninf" -> -1 [] OTHER -> PSign(a.v)
InfOf(s) == IF s < 0 THEN NegInf ELSE PosInf

(* What an operation yields when an operand is no number at all or is NaN; *)
(* Null when both operands are finite or infinite numbers.                 *)
Absorb(a, b) ==
  CASE a.k = "throw" \/ b.k = "throw" -> Thrown
    [] a.k = "complex" \/ b.k = "complex" -> Complex
    [] a.k = "nan" \/ b.k = "nan" -> NaN
    [] OTHER -> Null

JNeg(a) ==
  CASE a.k = "fin" -> Fin(PNeg(a.v))
    [] a.k = "pinf" -> NegInf
    [] a.k = "ninf" -> PosInf
    [] OTHER -> a

(* A double holds 53 binary digits, so a sum loses what is smaller than    *)
(* 2^-54 of it.  The term t is lost next to the leading term l when it is  *)
(* four orders of eps (1e-20) or more below it with a coefficient at most  *)
(* 1000 times as large; every other term is kept as it is.                 *)
LostNextTo(t, l) ==
  /\ t[1] >= l[1] + 4
  /\ Fits(IAbs(t[2]), l[3]) /\ Fits(1000, IAbs(l[2])) /\ Fits(1000 * IAbs(l[2]), t[3])
  /\ IAbs(t[2]) * l[3] <= 1000 * IAbs(l[2]) * t[3]

RoundedSum(p) ==
  IF Len(p) < 2 \/ p[Len(p)][1] < p[1][1] + 4 THEN p
  ELSE SelectSeq(p, LAMBDA t : ~LostNextTo(t, p[1]))

JAddBody(a, b) ==
  IF Absorb(a, b) # Null THEN Absorb(a, b)
  ELSE IF IsFinite(a) /\ IsFinite(b) THEN Fin(RoundedSum(PAdd(a.v, b.v)))
  ELSE IF IsInf(a) /\ IsInf(b) THEN (IF a.k = b.k THEN a ELSE NaN)
  ELSE IF IsInf(a) THEN a ELSE b

JSubBody(a, b) == JAdd(a, JNeg(b))

JMulBody(a, b) ==
  IF Absorb(a, b) # Null THEN Absorb(a, b)
  ELSE IF IsFinite(a) /\ IsFinite(b) THEN Fin(PMul(a.v, b.v))
  ELSE IF Sgn(a) = 0 \/ Sgn(b) = 0 THEN NaN
  ELSE InfOf(Sgn(a) * Sgn(b))

JDivBody(a, b) ==
  IF Absorb(a, b) # Null THEN Absorb(a, b)
  ELSE IF IsInf(a) /\ IsInf(b) THEN NaN
  ELSE IF IsInf(b) THEN Fin(PZero)
  ELSE IF Sgn(b) = 0 THEN (IF Sgn(a) = 0 THEN NaN ELSE InfOf(Sgn(a)))
  ELSE IF IsInf(a) THEN InfOf(Sgn(a) * Sgn(b))
  ELSE Fin(PDiv(a.v, b.v))

(* a < b on numbers (false when either is NaN) *)
JLessBody(a, b) ==
  CASE a.k = "nan" \/ b.k = "nan" -> FALSE
    [] IsFinite(a) /\ IsFinite(b) -> PLess(a.v, b.v)
    [] a.k = b.k -> FALSE
    [] OTHER -> a.k = "ninf" \/ b.k = "pinf"

JLeqBody(a, b) == a.k # "nan" /\ b.k # "nan" /\ ~JLess(b, a)

(* Math.abs, Math.max, Math.min *)
MathAbs(a) ==
  CASE a.k = "fin" -> Fin(PAbs(a.v))
    [] a.k = "ninf" -> PosInf
    [] OTHER -> a
MathMaxBody(a, b) == IF a.k = "nan" \/ b.k = "nan" THEN NaN ELSE IF JLess(a, b) THEN b ELSE a
MathMinBody(a, b) == IF a.k = "nan" \/ b.k = "nan" THEN NaN ELSE IF JLess(b, a) THEN b ELSE a


(* Math.floor of a finite value without a term of negative order *)
PFloor(a) ==
  IF a = <<>> THEN 0
  ELSE IF a[1][1] > 0 THEN (IF a[1][2] < 0 THEN -1 ELSE 0)
  ELSE LET c == <<a[1][2], a[1][3]>>
       IN  IF c[2] = 1 /\ Len(a) > 1 /\ a[2][2] < 0 THEN c[1] - 1 ELSE RFloor(c)

(***************************************************************************)
(* Strings: sequences of one-character strings.                            *)
(***************************************************************************)
IsWhitespace(c) == c \in {" ", "\t"}
SetMin(S) == CHOOSE m \in S : \A n \in S : m <= n
SetMax(S) == CHOOSE m \in S : \A n \in S : n <= m

(* String.prototype.trim *)
Trim(s) ==
  LET keep == {i \in 1..Len(s) : ~IsWhitespace(s[i])}
  IN  IF keep = {} THEN <<>> ELSE SubSeq(s, SetMin(keep), SetMax(keep))

(* String.prototype.includes *)
Includes(s, sub) ==
  \E i \in 1..(Len(s) - Len(sub) + 1) : SubSeq(s, i, i + Len(sub) - 1) = sub

(* normalizeExpr: "" for an empty or blank text; otherwise the trimmed    *)
(* text, with |inner| rewritten to abs(inner) when the text holds a bar    *)
(* and no "abs" and both starts and ends with a bar (the regular         *)
(* expression of the code, anchored at both ends, on a one-line text).     *)
normalizeExpr(raw) ==
  IF Len(raw) = 0 \/ Len(Trim(raw)) = 0 THEN <<>>
  ELSE LET s == Trim(raw)
       IN  IF Includes(s, <<"|">>) /\ ~Includes(s, <<"a", "b", "s">>)
              /\ Len(s) >= 2 /\ s[1] = "|" /\ s[Len(s)] = "|"
           THEN <<"a", "b", "s", "(">> \o SubSeq(s, 2, Len(s) - 1) \o <<")">>
           ELSE s

(***************************************************************************)
(* The expression texts of the model.                                      *)
(***************************************************************************)
TxtDefault == <<"s", "i", "n", "(", "x", ")", " ", "+", " ", "x", "^", "2", "/", "5">>
TxtSin == <<"s", "i", "n", "(", "x", ")">>
TxtSquare == <<"x", "^", "2">>
TxtGauss == <<"e", "x", "p", "(", "-", "x", "^", "2", ")">>
TxtCubic == <<"x", "^", "3", " ", "-", " ", "3", "*", "x">>
TxtLog == <<"l", "o", "g", "(", "x", ")">>
TxtAbs == <<"a", "b", "s", "(", "x", ")">>
TxtPiecewise == <<"x", "<", "0", "?", "-", "x", ":", "x", "^", "2">>
TxtStep == <<"x", "<", "0", "?", "-", "1", ":", "1">>
TxtRecip == <<"1", "/", "x">>
TxtFive == <<"5">>
TxtFreeSymbol == <<"x", "+", "y">>
TxtBars == <<"|", "x", "|">>
TxtPaddedSquare == <<" ", "x", "^", "2", " ">>
TxtEmpty == <<>>
TxtBlank == <<" ", " ">>
TxtDangling == <<"x", "+">>
TxtBarsSum == <<"|", "x", "|", "+", "|", "x", "|">>
TxtZero == <<"0">>
TxtX == <<"x">>
TxtHuge == <<"1", "e", "2", "0">>


(***************************************************************************)
(* mathjs, as far as the component uses it.  The library is a dependency   *)
(* of the repository, not part of it: parse is modelled by the syntax      *)
(* trees of the texts above, evaluate and derivative by their rules on     *)
(* those trees.  derivative is modelled without its final simplify step,   *)
(* which changes the tree and not the function it computes.                *)
(*                                                                         *)
(* A tree is <<"x">>, <<"const", n>>, <<"sym", name>>, <<op, l, r>> for    *)
(* op in + - * / <, <<"^", base, n>> (n a natural number), <<"neg", a>>,   *)
(* <<"call", fn, a>> or <<"?", cond, then, else>>.                         *)
(***************************************************************************)
X == <<"x">>
Const(n) == <<"const", Num(n)>>

(* The texts mathjs parses, with their trees; it rejects every other text  *)
(* of the model (TxtDangling "x+" and TxtBarsSum, which normalizeExpr      *)
(* turns into "abs(x|+|x)") with a SyntaxError.                            *)
(* what a throwing library call is modelled to return *)
MathError == <<"error">>
MathParseBody(src) ==
  CASE src = TxtDefault -> <<"+", <<"call", "sin", X>>, <<"/", <<"^", X, 2>>, Const(5)>>>>
    [] src = TxtSin -> <<"call", "sin", X>>
    [] src = TxtSquare -> <<"^", X, 2>>
    [] src = TxtGauss -> <<"call", "exp", <<"neg", <<"^", X, 2>>>>>>
    [] src = TxtCubic -> <<"-", <<"^", X, 3>>, <<"*", Const(3), X>>>>
    [] src = TxtLog -> <<"call", "log", X>>
    [] src = TxtAbs -> <<"call", "abs", X>>
    [] src = TxtPiecewise -> <<"?", <<"<", X, Const(0)>>, <<"neg", X>>, <<"^", X, 2>>>>
    [] src = TxtStep -> <<"?", <<"<", X, Const(0)>>, <<"neg", Const(1)>>, Const(1)>>
    [] src = TxtRecip -> <<"/", Const(1), X>>
    [] src = TxtFive -> Const(5)
    [] src = TxtFreeSymbol -> <<"+", X, <<"sym", "y">>>>
    [] src = TxtZero -> Const(0)
    [] src = TxtX -> X
    [] src = TxtHuge -> <<"const", Fin(PEps(-4, 1, 1))>>
    [] OTHER -> MathError

(* Math.sin, Math.cos, Math.exp and Math.log are transcendental and have   *)
(* no exact values here.  They are replaced by rational surrogates with    *)
(* the same zeros at the points the self tests use (sin 0 = 0, log 1 = 0,  *)
(* exp 0 = 1), the same sign, the same behaviour on NaN and the            *)
(* infinities and the same domain (log: -Infinity at 0, a Complex below    *)
(* 0).  Nothing stated below depends on their values beyond that.          *)
SinPBody(v) ==
  LET t == PSub(v, PMul(PInt(6), PInt(PFloor(PMul(PRat(1, 6), v)))))
  IN  IF PLess(t, PInt(3))
      THEN PMul(PRat(4, 9), PMul(t, PSub(PInt(3), t)))
      ELSE PNeg(PMul(PRat(4, 9), PMul(PSub(t, PInt(3)), PSub(PInt(6), t))))

MathSin(a) ==
  CASE a.k = "fin" -> Fin(SinP(a.v))
    [] IsInf(a) -> NaN
    [] OTHER -> a
MathCos(a) ==
  CASE a.k = "fin" -> Fin(SinP(PAdd(a.v, PRat(3, 2))))
    [] IsInf(a) -> NaN
    [] OTHER -> a
MathExp(a) ==
  CASE a.k = "fin" -> IF PSign(a.v) >= 0 THEN Fin(PAdd(PInt(1), a.v))
                      ELSE Fin(PDiv(PInt(1), PSub(PInt(1), a.v)))
    [] a.k = "ninf" -> Fin(PZero)
    [] OTHER -> a
(* mathjs log: Math.log(x) when x >= 0, a Complex otherwise *)
MathLog(a) ==
  CASE a.k = "fin" -> IF PSign(a.v) > 0
                      THEN Fin(PDiv(PMul(PInt(2), PSub(a.v, PInt(1))), PAdd(a.v, PInt(1))))
                      ELSE IF PSign(a.v) = 0 THEN NegInf ELSE Complex
    [] a.k = "pinf" -> PosInf
    [] a.k \in {"ninf", "nan"} -> Complex
    [] OTHER -> a

(* mathjs nearlyEqual(x, y, config.epsilon) on numbers: DBL_EPSILON is     *)
(* 2^-52, about 0.222 eps^3, and config.epsilon is 1e-12 = eps^2 / 100.    *)
NearlyEqual(a, b) ==
  IF a = b /\ a.k # "nan" THEN TRUE
  ELSE IF ~(IsFinite(a) /\ IsFinite(b)) THEN FALSE
  ELSE LET diff == PAbs(PSub(a.v, b.v))
           big == IF PLess(PAbs(a.v), PAbs(b.v)) THEN PAbs(b.v) ELSE PAbs(a.v)
       IN  PLess(diff, PEps(3, 111, 500)) \/ PLeq(diff, PMul(big, PEps(2, 1, 100)))

(* mathjs smaller(x, y) on numbers *)
Smaller(a, b) == JLess(a, b) /\ ~NearlyEqual(a, b)

RECURSIVE JPow(_, _)
JPow(a, n) ==
  IF n = 0 THEN (IF a.k \in {"throw", "complex"} THEN a ELSE Num(1))
  ELSE IF n = 1 THEN a
  ELSE JMul(a, JPow(a, n - 1))

(* the named functions on a number (a Complex or Thrown argument yields   *)
(* the same)                                                               *)
CallFunction(name, a) ==
  CASE name = "sin" -> MathSin(a)
    [] name = "cos" -> MathCos(a)
    [] name = "exp" -> MathExp(a)
    [] name = "log" -> MathLog(a)
    [] name = "abs" -> MathAbs(a)

(* code.evaluate({ x }): a number, a Complex, or Thrown *)
EvaluateBody(node, x) ==
  CASE node[1] = "x" -> x
    [] node[1] = "const" -> node[2]
    [] node[1] = "sym" -> Thrown
    [] node[1] = "+" -> JAdd(Evaluate(node[2], x), Evaluate(node[3], x))
    [] node[1] = "-" -> JSub(Evaluate(node[2], x), Evaluate(node[3], x))
    [] node[1] = "*" -> JMul(Evaluate(node[2], x), Evaluate(node[3], x))
    [] node[1] = "/" -> JDiv(Evaluate(node[2], x), Evaluate(node[3], x))
    [] node[1] = "^" -> JPow(Evaluate(node[2], x), node[3])
    [] node[1] = "neg" -> JNeg(Evaluate(node[2], x))
    [] node[1] = "call" -> CallFunction(node[2], Evaluate(node[3], x))
    [] node[1] = "?" ->
         LET l == Evaluate(node[2][2], x)
             r == Evaluate(node[2][3], x)
         IN  IF l.k = "throw" \/ r.k = "throw" THEN Thrown
             ELSE IF Smaller(l, r) THEN Evaluate(node[3], x)
             ELSE Evaluate(node[4], x)

(* Whether a tree is constant in x (mathjs constTag) *)
RECURSIVE IsConstNode(_)
IsConstNode(node) ==
  CASE node[1] = "x" -> FALSE
    [] node[1] \in {"const", "sym"} -> TRUE
    [] node[1] \in {"+", "-", "*", "/", "<"} -> IsConstNode(node[2]) /\ IsConstNode(node[3])
    [] node[1] \in {"^", "neg"} -> IsConstNode(node[2])
    [] node[1] = "call" -> IsConstNode(node[3])
    [] node[1] = "?" -> IsConstNode(node[2]) /\ IsConstNode(node[3]) /\ IsConstNode(node[4])

(* Whether math.derivative has a rule for every node of the tree: it has   *)
(* none for a conditional or a comparison, and throws on them.             *)
RECURSIVE Differentiable(_)
Differentiable(node) ==
  CASE node[1] \in {"x", "const", "sym"} -> TRUE
    [] node[1] \in {"+", "-", "*", "/"} -> Differentiable(node[2]) /\ Differentiable(node[3])
    [] node[1] \in {"^", "neg"} -> Differentiable(node[2])
    [] node[1] = "call" -> Differentiable(node[3])
    [] OTHER -> FALSE

(* The tree math.derivative builds for a differentiable tree *)
RECURSIVE DerivativeNode(_)
DerivativeNode(node) ==
  CASE node[1] = "x" -> Const(1)
    [] node[1] \in {"const", "sym"} -> Const(0)
    [] node[1] \in {"+", "-"} -> <<node[1], DerivativeNode(node[2]), DerivativeNode(node[3])>>
    [] node[1] = "*" ->
         IF IsConstNode(node[2]) THEN <<"*", node[2], DerivativeNode(node[3])>>
         ELSE IF IsConstNode(node[3]) THEN <<"*", DerivativeNode(node[2]), node[3]>>
         ELSE <<"+", <<"*", DerivativeNode(node[2]), node[3]>>,
                     <<"*", node[2], DerivativeNode(node[3])>>>>
    [] node[1] = "/" ->
         IF IsConstNode(node[3]) THEN <<"/", DerivativeNode(node[2]), node[3]>>
         ELSE IF IsConstNode(node[2])
         THEN <<"*", <<"neg", node[2]>>, <<"/", DerivativeNode(node[3]), <<"^", node[3], 2>>>>>>
         ELSE <<"/", <<"-", <<"*", DerivativeNode(node[2]), node[3]>>,
                            <<"*", node[2], DerivativeNode(node[3])>>>>,
                     <<"^", node[3], 2>>>>
    [] node[1] = "^" ->
         IF node[3] = 0 THEN Const(0)
         ELSE IF node[3] = 1 THEN DerivativeNode(node[2])
         ELSE <<"*", Const(node[3]),
                     <<"*", DerivativeNode(node[2]), <<"^", node[2], node[3] - 1>>>>>>
    [] node[1] = "neg" -> <<"neg", DerivativeNode(node[2])>>
    [] node[1] = "call" ->
         LET chain == DerivativeNode(node[3])
         IN  (CASE node[2] = "sin" -> <<"*", chain, <<"call", "cos", node[3]>>>>
                [] node[2] = "cos" -> <<"*", <<"neg", chain>>, <<"call", "sin", node[3]>>>>
                [] node[2] = "exp" -> <<"*", chain, <<"call", "exp", node[3]>>>>
                [] node[2] = "log" -> <<"/", chain, node[3]>>
                [] node[2] = "abs" -> <<"*", chain, <<"/", <<"call", "abs", node[3]>>, node[3]>>>>)

(* math.derivative(src, "x"): it parses src itself *)
MathDerivativeBody(src) ==
  IF MathParse(src) = MathError \/ ~Differentiable(MathParse(src)) THEN MathError
  ELSE DerivativeNode(MathParse(src))


(***************************************************************************)
(* compileExpression and compileDerivative.  What they return is a record  *)
(* [k, tier, node]: k is "null", "fn" (a callable) or "raised" (an         *)
(* exception left the function, which the code below never lets happen);   *)
(* a callable closes over the compiled tree, and tier tells which closure  *)
(* it is.  CallFn applies a callable.                                      *)
(***************************************************************************)
NoFn == [k |-> "null", tier |-> "none", node |-> <<>>]
Fn(tier, node) == [k |-> "fn", tier |-> tier, node |-> node]
Raised == [k |-> "raised", tier |-> "none", node |-> <<>>]

(* Number.isFinite(v) ? v : NaN *)
FiniteOrNaN(v) == IF IsFinite(v) THEN v ELSE NaN

(* compileExpression without the catch around parse and compile *)
compileExpressionNoCatch(text) ==
  LET src == normalizeExpr(text)
  IN  IF src = <<>> THEN NoFn
      ELSE IF MathParse(src) = MathError THEN Raised
      ELSE Fn("expression", MathParse(src))

compileExpression(text) ==
  LET src == normalizeExpr(text)
  IN  IF src = <<>> THEN NoFn
      ELSE IF MathParse(src) = MathError THEN NoFn   \* catch { return null }
      ELSE Fn("expression", MathParse(src))

(* compileDerivative without the numeric tier *)
compileDerivativeNoFallback(text) ==
  LET src == normalizeExpr(text)
  IN  IF src = <<>> THEN NoFn
      ELSE IF MathDerivative(src) # MathError THEN Fn("symbolic", MathDerivative(src))
      ELSE NoFn

compileDerivative(text) ==
  LET src == normalizeExpr(text)
  IN  IF src = <<>> THEN NoFn
      ELSE IF MathDerivative(src) # MathError THEN Fn("symbolic", MathDerivative(src))
      ELSE IF compileExpression(src).k # "fn" THEN compileExpression(src)
      ELSE Fn("numeric", compileExpression(src).node)

(* 1e-5 *)
StepScale == Fin(PEps(1, 1, 1))

(* the closure without its try and its Number.isFinite test *)
CallCompiledRaw(node, x) == Evaluate(node, x)

(* the closure of compileExpression (and of the symbolic tier) at x:       *)
(* try { v = code.evaluate({ x }); return finite v or NaN } catch { NaN }  *)
CallCompiled(node, x) ==
  LET v == Evaluate(node, x)
  IN  IF v.k = "throw" THEN NaN ELSE FiniteOrNaN(v)

(* a difference quotient over h instead of 2 * h *)
CentralDifferenceOverH(node, x) ==
  LET h == JMul(StepScale, MathMax(Num(1), MathAbs(x)))
      y1 == CallCompiled(node, JAdd(x, h))
      y2 == CallCompiled(node, JSub(x, h))
  IN  FiniteOrNaN(JDiv(JSub(y1, y2), h))

(* the central difference of the numeric tier at x *)
CentralDifference(node, x) ==
  LET h == JMul(StepScale, MathMax(Num(1), MathAbs(x)))
      y1 == CallCompiled(node, JAdd(x, h))
      y2 == CallCompiled(node, JSub(x, h))
      d == JDiv(JSub(y1, y2), JMul(Num(2), h))
  IN  FiniteOrNaN(d)

CallFnBody(fn, x) ==
  IF fn.tier = "numeric" THEN CentralDifference(fn.node, x) ELSE CallCompiled(fn.node, x)

(* runSelfTests on one case: f(c.x), df(c.x) and, beside them, what the    *)
(* closure of the numeric tier yields for f at c.x; c is <<f, df>>         *)
SelfTestBody(c, x) ==
  <<CallFn(c[1], x),
    IF c[2].k = "fn" THEN CallFn(c[2], x) ELSE Null,
    CentralDifference(c[1].node, x)>>


(***************************************************************************)
(* Utils.                                                                  *)
(***************************************************************************)
clamp(v, a, b) == MathMax(a, MathMin(b, v))

(* Array.from({ length: n }): the length of the array, 0 for NaN *)
ArrayLength(n) == IF n.k = "fin" THEN PFloor(n.v) ELSE 0

(* linspace(a, b, n)[i], i in 0..ArrayLength(n)-1 *)
linspaceStep(a, b, n) == JDiv(JSub(b, a), MathMax(Num(1), JSub(n, Num(1))))
linspace(a, b, n, i) == JAdd(a, JMul(Num(i), linspaceStep(a, b, n)))

(***************************************************************************)
(* The coordinate mapper.                                                  *)
(***************************************************************************)
worldToScreenBody(x, y, W, H, xMin_, xMax_, yMin_, yMax_) ==
  <<JMul(JDiv(JSub(x, xMin_), JSub(xMax_, xMin_)), W),
    JSub(H, JMul(JDiv(JSub(y, yMin_), JSub(yMax_, yMin_)), H))>>

(* screenToWorld without the offsets xMin and yMin *)
screenToWorldNoOffset(sx, sy, W, H, xMin_, xMax_, yMin_, yMax_) ==
  <<JMul(JDiv(sx, W), JSub(xMax_, xMin_)), JMul(JDiv(JSub(H, sy), H), JSub(yMax_, yMin_))>>

screenToWorldBody(sx, sy, W, H, xMin_, xMax_, yMin_, yMax_) ==
  <<JAdd(xMin_, JMul(JDiv(sx, W), JSub(xMax_, xMin_))),
    JAdd(yMin_, JMul(JDiv(JSub(H, sy), H), JSub(yMax_, yMin_)))>>

(***************************************************************************)
(* niceTicks.                                                              *)
(***************************************************************************)
(* Math.ceil *)
MathCeil(a) == IF a.k = "fin" THEN Num(-PFloor(PNeg(a.v))) ELSE a

(* Math.pow(10, Math.floor(Math.log10(v))): the largest power of ten that  *)
(* is at most v, NaN for a negative v or NaN.  The model holds the powers  *)
(* from 10^-13 to 10^4, so v is to lie between 10^-13 and 10^5; the powers *)
(* below 10^-4 are multiples of eps (down to 10^-8) and of eps^2, as the   *)
(* literals of the code are (see Numbers above).                           *)
Decades == -13..4
TenTo(k) ==
  IF k >= 0 THEN Num(10^k)
  ELSE IF k >= -4 THEN Rat(1, 10^(-k))
  ELSE IF k >= -8 THEN Fin(PEps(1, 1, 10^(-k - 5)))
  ELSE IF k >= -10 THEN Fin(PEps(2, 10^(k + 10), 1))
  ELSE Fin(PEps(2, 1, 10^(-k - 10)))
DecadeBelowBody(v) ==
  IF v.k # "fin" \/ PSign(v.v) < 0 THEN NaN
  ELSE TenTo(CHOOSE k \in Decades :
               /\ JLeq(TenTo(k), v)
               /\ \A j \in Decades : JLeq(TenTo(j), v) => j <= k)

(* the coefficient of eps^e in the polynomial a, as a rational *)
Coeff(a, e) ==
  IF \E i \in 1..Len(a) : a[i][1] = e
  THEN LET i == CHOOSE j \in 1..Len(a) : a[j][1] = e IN <<a[i][2], a[i][3]>>
  ELSE <<0, 1>>

(* the greatest multiple of 1/m that is at most the rational c *)
FloorToBody(c, m) == RNorm(RFloor(RMul(c, <<m, 1>>)), m)
(* m times what c exceeds it by *)
CarryOfBody(c, m) == RMul(RAdd(c, <<-FloorTo(c, m)[1], FloorTo(c, m)[2]>>), <<m, 1>>)

(* +v.toFixed(12): v rounded to a multiple of 1e-12 = eps^2 / 100.  The    *)
(* digits of v beyond the fifth and the tenth decimal are carried to the   *)
(* coefficients of eps and eps^2, and the latter is rounded to hundredths  *)
(* (a half goes up; terms from eps^3 on, below 1e-15, are dropped).        *)
RECURSIVE FixedFrom(_, _, _)
(* the terms of the rounded value from eps^e on, t being the coefficient *)
(* of eps^e with what the lower orders carried to it                     *)
FixedFrom(a, e, t) ==
  IF e = 2 THEN PEps(2, FloorTo(RAdd(t, <<1, 200>>), 100)[1], FloorTo(RAdd(t, <<1, 200>>), 100)[2])
  ELSE PEps(e, FloorTo(t, 100000)[1], FloorTo(t, 100000)[2])
         \o FixedFrom(a, e + 1, RAdd(Coeff(a, e + 1), CarryOf(t, 100000)))

ToFixed12(v) == IF v.k # "fin" THEN v ELSE Fin(FixedFrom(v.v, 0, Coeff(v.v, 0)))

(* 1e-12 *)
TickSlack == Fin(PEps(2, 1, 100))

(* const span = max - min || 1 *)
SpanOfBody(min, max) ==
  IF JSub(max, min) = Num(0) \/ JSub(max, min).k = "nan" THEN Num(1) ELSE JSub(max, min)

(* step0 / pow10 brought to 5, 2 or 1, times pow10 *)
NiceStepBody(step0, pow10) ==
  JMul(IF JLeq(Num(5), JDiv(step0, pow10)) THEN Num(5)
       ELSE IF JLeq(Num(2), JDiv(step0, pow10)) THEN Num(2) ELSE Num(1),
       pow10)

(* niceTicks up to its loop: the step, the first v, and no tick yet *)
TicksBegunBody(min, max, target) ==
  LET step == NiceStep(JDiv(SpanOf(min, max), Num(target)),
                       DecadeBelow(JDiv(SpanOf(min, max), Num(target))))
  IN  [stage |-> "loop", min |-> min, max |-> max, step |-> step,
       v |-> JMul(MathCeil(JDiv(min, step)), step), out |-> <<>>]

(* the test of the loop: v <= max + 1e-12 *)
TickDueBody(t) == JLeq(t.v, JAdd(t.max, TickSlack))

(* the body of the loop, and v += step *)
TickPushedBody(t) ==
  [t EXCEPT !.out = Append(t.out, ToFixed12(t.v)), !.v = JAdd(t.v, t.step)]

(***************************************************************************)
(* parseFloat and parseInt on the texts of a number input: an optional     *)
(* sign, digits and, for parseFloat, a fraction; NaN when no digit is      *)
(* found.  (Exponents are not modelled; no text of the model has one.)     *)
(***************************************************************************)
IsDigit(c) == c \in {"0", "1", "2", "3", "4", "5", "6", "7", "8", "9"}
DigitValue(c) ==
  CASE c = "0" -> 0 [] c = "1" -> 1 [] c = "2" -> 2 [] c = "3" -> 3 [] c = "4" -> 4
    [] c = "5" -> 5 [] c = "6" -> 6 [] c = "7" -> 7 [] c = "8" -> 8 [] c = "9" -> 9

(* the number of digits of s from position i on *)
DigitRun(s, i) ==
  LET stops == {j \in i..Len(s) : ~IsDigit(s[j])}
  IN  IF stops = {} THEN Len(s) + 1 - i ELSE SetMin(stops) - i

(* the value of the n digits of s from position i on *)
RECURSIVE DigitsValue(_, _, _)
DigitsValue(s, i, n) ==
  IF n = 0 THEN 0 ELSE 10 * DigitsValue(s, i, n - 1) + DigitValue(s[i + n - 1])

RECURSIVE PowerOfTen(_)
PowerOfTen(n) == IF n = 0 THEN 1 ELSE 10 * PowerOfTen(n - 1)

SignLength(s) == IF Len(s) > 0 /\ s[1] \in {"-", "+"} THEN 1 ELSE 0
SignOf(s) == IF Len(s) > 0 /\ s[1] = "-" THEN -1 ELSE 1

parseInt(text) ==
  LET s == Trim(text)
      from == SignLength(s) + 1
      n == DigitRun(s, from)
  IN  IF n = 0 THEN NaN ELSE Num(SignOf(s) * DigitsValue(s, from, n))

parseFloatBody(text) ==
  LET s == Trim(text)
      from == SignLength(s) + 1
      n == DigitRun(s, from)
      dot == from + n
      m == IF dot <= Len(s) /\ s[dot] = "." THEN DigitRun(s, dot + 1) ELSE 0
  IN  IF n = 0 /\ m = 0 THEN NaN
      ELSE JMul(Num(SignOf(s)),
                JAdd(Num(DigitsValue(s, from, n)),
                     Rat(DigitsValue(s, dot + 1, m), PowerOfTen(m))))

(***************************************************************************)
(* The inputs of the model: what the user types or picks, and where the    *)
(* pointer is.                                                             *)
(***************************************************************************)
ExprInputs == {TxtDefault, TxtAbs, TxtPiecewise, TxtStep, TxtFive, TxtDangling}
XMinInputs == {<<"-", "1", "0">>, <<"1">>, <<>>}
XMaxInputs == {<<"1", "0">>, <<"-", "1">>}
SampleInputs == {<<>>, <<"8", "0", "0">>, <<"1", "0", "0", ".", "5">>, <<".", "5">>}
TangentInputs == {TxtZero, TxtX}

(* canvas.clientWidth and canvas.clientHeight (the canvas is 520px high; *)
(* its width is that of the page column)                                  *)
CanvasWidth == 640
CanvasHeight == 520
Gap == 12
PanelHeight == Rat(CanvasHeight - Gap, 2)
PointerXs == {CanvasWidth \div 4, CanvasWidth \div 2}
PointerYs == {0, 100, 254, 255}



(* the sample count a text of the samples input sets: e.target.value, or   *)
(* "0" when that is empty, through parseInt and clamp(.., 100, 4000); NaN  *)
(* when parseInt finds no digit (Math.min and Math.max hand NaN on)        *)
MinSamples == 100
MaxSamples == 4000
SamplesOfBody(text) ==
  clamp(parseInt(IF text = <<>> THEN TxtZero ELSE text), Num(MinSamples), Num(MaxSamples))

(***************************************************************************)
(* The range estimator.                                                    *)
(***************************************************************************)
(* Math.min(samples, 400) *)
RangeSampleCap == 400
RangeSamples(count) == MathMin(count, Num(RangeSampleCap))

(***************************************************************************)
(* The body of the yRange and dRange effects after                         *)
(* their guard.  RunningRange is the for loop: the least and the greatest  *)
(* finite sample among xs[lo..hi], <<Infinity, -Infinity>> when there is   *)
(* none.  The loop goes through the samples in order; minimum and maximum  *)
(* do not depend on the order, and the model splits the interval in two    *)
(* halves to keep the evaluation shallow.                                  *)
(***************************************************************************)
RECURSIVE RunningRange(_, _, _, _, _)
RunningRange(fn, a, step, lo, hi) ==
  IF lo > hi THEN <<PosInf, NegInf>>
  ELSE IF lo = hi
  THEN LET y == CallFn(fn, JAdd(a, JMul(Num(lo), step)))
       IN  IF ~IsFinite(y) THEN <<PosInf, NegInf>> ELSE <<y, y>>
  ELSE LET mid == (lo + hi) \div 2
           l == RunningRange(fn, a, step, lo, mid)
           r == RunningRange(fn, a, step, mid + 1, hi)
       IN  <<MathMin(l[1], r[1]), MathMax(l[2], r[2])>>

(* The loop over all n samples of linspace(a, b, n). *)
LoopRange(fn, a, b, n) ==
  RunningRange(fn, a, linspaceStep(a, b, n), 0, ArrayLength(n) - 1)

(* The results of the loop for the functions of the given texts and the    *)
(* domains and sample counts of the model's inputs.  The loop is a pure    *)
(* function of them: the variable ranges holds this table from the first   *)
(* state on (empty where the ranges are not estimated), and the loop is    *)
(* run for an argument that is not in it.                                  *)
RangeTableBody(texts) ==
  [key \in {fn \in {compileExpression(t) : t \in texts}
                       \cup {compileDerivative(t) : t \in texts} : fn.k = "fn"}
            \X {parseFloat(t) : t \in XMinInputs} \X {parseFloat(t) : t \in XMaxInputs}
            \X {RangeSamples(SamplesOf(t)) : t \in SampleInputs}
     |-> LoopRange(key[1], key[2], key[3], key[4])] @@ <<>>

SampledRangeBody(fn, a, b, n) ==
  IF <<fn, a, b, n>> \in DOMAIN ranges THEN ranges[<<fn, a, b, n>>]
  ELSE LoopRange(fn, a, b, n)

(* 0.1 and 1e-9 *)
PadShare == Rat(1, 10)
PadEpsilon == Fin(PEps(2, 10, 1))

(* if (!Number.isFinite(ymin) || !Number.isFinite(ymax)) { ymin = -1; ymax = 1; } *)
Fallback(r) == IF ~IsFinite(r[1]) \/ ~IsFinite(r[2]) THEN <<Num(-1), Num(1)>> ELSE r

(* if (ymin === ymax) { ymin -= 1; ymax += 1; } *)
Widened(r) == IF r[1] = r[2] THEN <<JSub(r[1], Num(1)), JAdd(r[2], Num(1))>> ELSE r

(* the range before padding, without the [-1, 1] of the empty case *)
UnpaddedRangeNoFallback(fn, a, b, count) ==
  Widened(SampledRange(fn, a, b, RangeSamples(count)))

(* the range before padding, without the widening of a single value *)
UnpaddedRangeNoWiden(fn, a, b, count) ==
  Fallback(SampledRange(fn, a, b, RangeSamples(count)))

(* the range before padding *)
UnpaddedRange(fn, a, b, count) ==
  Widened(Fallback(SampledRange(fn, a, b, RangeSamples(count))))

(* pad = (ymax - ymin) * 0.1 + 1e-9 and [ymin - pad, ymax + pad] *)
Pad(u) == JAdd(JMul(JSub(u[2], u[1]), PadShare), PadEpsilon)
Padded(u, pad) == <<JSub(u[1], pad), JAdd(u[2], pad)>>

(* the range handed to setYRange or setDRange *)
estimateRange(fn, a, b, count) ==
  Padded(UnpaddedRange(fn, a, b, count), Pad(UnpaddedRange(fn, a, b, count)))


(***************************************************************************)
(* The effect that estimates yRange, one sample at a time.  r is the state *)
(* of the effect: the function fn, the domain <<a, b>>, the length n of    *)
(* xs, the index i of the next sample, ymin and ymax, and out, the range   *)
(* handed to setYRange.                                                    *)
(***************************************************************************)
(* the effect up to its loop: the guard, xs, ymin and ymax *)
RangeBegunBody(text, a, b, count) ==
  IF f([expr |-> text]).k # "fn"
  THEN [stage |-> "failed", text |-> text]
  ELSE [stage |-> "loop", text |-> text, fn |-> f([expr |-> text]), a |-> a, b |-> b,
        n |-> RangeSamples(count), i |-> 0, ymin |-> PosInf, ymax |-> NegInf,
        out |-> <<Null, Null>>]

(* one pass of the loop, at x = xs[i] *)
RangeSteppedBody(r) ==
  IF ~IsFinite(CallFn(r.fn, linspace(r.a, r.b, r.n, r.i)))
  THEN [r EXCEPT !.i = r.i + 1]
  ELSE [r EXCEPT !.i = r.i + 1,
                 !.ymin = MathMin(r.ymin, CallFn(r.fn, linspace(r.a, r.b, r.n, r.i))),
                 !.ymax = MathMax(r.ymax, CallFn(r.fn, linspace(r.a, r.b, r.n, r.i)))]

(* the effect after its loop *)
RangeReturnedBody(r) ==
  [r EXCEPT !.stage = "done",
            !.out = Padded(Widened(Fallback(<<r.ymin, r.ymax>>)),
                           Pad(Widened(Fallback(<<r.ymin, r.ymax>>))))]


(***************************************************************************)
(* drawCurve, one sample at a time.  c is the state of the loop: the       *)
(* variant v, the function fn, the domain <<a, b>>, samples n, the index i *)
(* of the next sample, started and lastY, and of the sample handled last:  *)
(* x, y, the drawing call op ("skip" when there was none, else "moveTo" or *)
(* "lineTo", to the point of (x, y)) and whether the jump test cut the     *)
(* path there; prevX and prevOp are x and op of the sample before it,      *)
(* fromX the x of the first point of the subpath in progress, and paths    *)
(* the number of subpaths begun.                                           *)
(***************************************************************************)
(* 0.75, 0.4 and 1e-9 *)
JumpAbs == Rat(3, 4)
JumpRel == Rat(2, 5)
JumpFloor == Fin(PEps(2, 10, 1))

(* sample i: xs[i] of linspace in the first App; in src/script.js and the  *)
(* second App xMin_ + (i / (N - 1)) * (xMax_ - xMin_)                      *)
SampleX(c) ==
  IF c.v = "App" THEN linspace(c.a, c.b, c.n, c.i)
  ELSE JAdd(c.a, JMul(JDiv(Num(c.i), JSub(c.n, Num(1))), JSub(c.b, c.a)))

(* the jump test, were one threshold enough *)
JumpEither(lastY, y) ==
  \/ JLess(JumpAbs, MathAbs(JSub(y, lastY)))
  \/ JLess(JumpRel, JDiv(MathAbs(JSub(y, lastY)),
                         MathMax(JumpFloor, MathMax(MathAbs(y), MathAbs(lastY)))))

(* the jump test of the first App between lastY and y *)
JumpBetween(lastY, y) ==
  /\ JLess(JumpAbs, MathAbs(JSub(y, lastY)))
  /\ JLess(JumpRel, JDiv(MathAbs(JSub(y, lastY)),
                         MathMax(JumpFloor, MathMax(MathAbs(y), MathAbs(lastY)))))

(* one pass through the body of the loop, were every point to begin a     *)
(* subpath of its own                                                      *)
CurveMovedApart(c, x, y, cut) ==
  [c EXCEPT !.i = c.i + 1, !.x = x, !.y = y, !.prevX = c.x, !.prevOp = c.op,
            !.op = IF ~IsFinite(y) THEN "skip" ELSE "moveTo",
            !.cut = IsFinite(y) /\ cut,
            !.started = IsFinite(y),
            !.lastY = IF IsFinite(y) /\ c.v = "App" THEN y ELSE c.lastY,
            !.fromX = IF IsFinite(y) THEN x ELSE c.fromX,
            !.paths = IF IsFinite(y) THEN c.paths + 1 ELSE c.paths]

(* one pass through the body of the loop, given x, y and whether the path  *)
(* is cut before the point                                                 *)
CurveMoved(c, x, y, cut) ==
  [c EXCEPT !.i = c.i + 1, !.x = x, !.y = y, !.prevX = c.x, !.prevOp = c.op,
            !.op = IF ~IsFinite(y) THEN "skip"
                   ELSE IF ~c.started \/ cut THEN "moveTo" ELSE "lineTo",
            !.cut = IsFinite(y) /\ cut,
            !.started = IsFinite(y),
            !.lastY = IF IsFinite(y) /\ c.v = "App" THEN y ELSE c.lastY,
            !.fromX = IF IsFinite(y) /\ (~c.started \/ cut) THEN x ELSE c.fromX,
            !.paths = IF IsFinite(y) /\ (~c.started \/ cut) THEN c.paths + 1 ELSE c.paths]

(* the loop without the jump test *)
CurveSteppedNoJump(c) ==
  CurveMoved(c, SampleX(c), CallFn(c.fn, SampleX(c)), FALSE)

(* the loop, were a sample that is not finite to leave started as it is *)
CurveSteppedNoBreak(c) ==
  [CurveMoved(c, SampleX(c), CallFn(c.fn, SampleX(c)),
              /\ c.v = "App" /\ c.started /\ IsFinite(c.lastY)
              /\ IsFinite(CallFn(c.fn, SampleX(c)))
              /\ JumpBetween(c.lastY, CallFn(c.fn, SampleX(c))))
     EXCEPT !.started = IF IsFinite(CallFn(c.fn, SampleX(c))) THEN TRUE ELSE c.started]

CurveSteppedBody(c) ==
  CurveMoved(c, SampleX(c), CallFn(c.fn, SampleX(c)),
             /\ c.v = "App" /\ c.started /\ IsFinite(c.lastY)
             /\ IsFinite(CallFn(c.fn, SampleX(c)))
             /\ JumpBetween(c.lastY, CallFn(c.fn, SampleX(c))))

(* the state of the loop before its first sample *)
CurveBegunBody(v, text, a, b, n) ==
  [stage |-> "loop", v |-> v, text |-> text, fn |-> f([expr |-> text]),
   a |-> a, b |-> b, n |-> n,
   i |-> 0, started |-> FALSE, lastY |-> Null,
   x |-> Null, y |-> Null, op |-> "none", cut |-> FALSE,
   prevX |-> Null, prevOp |-> "none", fromX |-> Null, paths |-> 0]

(***************************************************************************)
(* drawDerivativeWithHoles of the first App, one sample at a time.  w is   *)
(* the state of the loop: f and df, the domain <<a, b>>, the length n of   *)
(* xs, the index i of the next sample, started, and of the sample handled  *)
(* last: x, the one-sided                                                  *)
(* slopes left and right (Null when they were not computed), the drawing   *)
(* call op and whether a corner was found; marks holds the hole markers    *)
(* drawn so far, each <<x, slope>>; open counts the lines of the current   *)
(* path, which no ctx.stroke() has painted yet, and lost the lines of the  *)
(* paths that were emptied before they were stroked.                       *)
(***************************************************************************)
(* Math.min(samples, 500) *)
HoleSampleCap == 500
(* CONT_ABS = SLOPE_ABS = 0.6, CONT_REL = SLOPE_REL = 0.35, and 1e-6 *)
HoleAbs == Rat(3, 5)
HoleRel == Rat(7, 20)
HoleMinStep == Fin(PEps(1, 1, 10))

(* whether p and q differ by more than 0.6 and, relative to the greater of *)
(* them, by more than 0.35 (FALSE when one of them is NaN)                 *)
FarApart(p, q) ==
  /\ JLess(HoleAbs, MathAbs(JSub(p, q)))
  /\ JLess(HoleRel, JDiv(MathAbs(JSub(p, q)),
                         MathMax(JumpFloor, MathMax(MathAbs(p), MathAbs(q)))))

(* h = Math.max(1e-6, 0.5 * H), H = (xMax - xMin) / (xs.length - 1) *)
HoleStep(w) ==
  MathMax(HoleMinStep,
          JMul(Rat(1, 2), JDiv(JSub(w.b, w.a), JSub(Num(ArrayLength(w.n)), Num(1)))))

(* drawHole(left) alone *)
HoleMarksLeftOnly(x, left, right) ==
  IF IsFinite(left) THEN <<<<x, left>>>> ELSE <<>>

(* drawHole(left); drawHole(right): a marker for each finite slope *)
HoleMarks(x, left, right) ==
  (IF IsFinite(left) THEN <<<<x, left>>>> ELSE <<>>)
    \o (IF IsFinite(right) THEN <<<<x, right>>>> ELSE <<>>)

(* the body of the loop from the test of y and jumpHere on.  At a corner   *)
(* the ctx.beginPath() of drawHole empties the current path before the     *)
(* ctx.stroke() that follows the two calls: the lines of the path are lost *)
(* when a marker is drawn, stroked when none is.                           *)
HoleDrawn(w, x, y, jumpHere, left, right, cornerHere) ==
  IF ~IsFinite(y) \/ jumpHere
  THEN [w EXCEPT !.i = w.i + 1, !.x = x, !.started = FALSE, !.op = "skip",
                 !.left = Null, !.right = Null, !.corner = FALSE]
  ELSE [w EXCEPT !.i = w.i + 1, !.x = x, !.left = left, !.right = right,
                 !.op = IF w.started THEN "lineTo" ELSE "moveTo",
                 !.corner = cornerHere,
                 !.started = ~cornerHere,
                 !.marks = IF cornerHere THEN w.marks \o HoleMarks(x, left, right)
                           ELSE w.marks,
                 !.open = IF cornerHere THEN 0
                          ELSE IF w.started THEN w.open + 1 ELSE w.open,
                 !.lost = IF cornerHere /\ HoleMarks(x, left, right) # <<>>
                          THEN w.lost + w.open + (IF w.started THEN 1 ELSE 0)
                          ELSE w.lost]

(* the body of the loop from ym = f(x - h), yp = f(x + h) and y0 = f(x) on *)
HoleProbedBody(w, x, h, ym, y0, yp) ==
  HoleDrawn(w, x, CallFn(w.df, x),
            ~IsFinite(ym) \/ ~IsFinite(yp) \/ FarApart(yp, ym),
            JDiv(JSub(y0, ym), h), JDiv(JSub(yp, y0), h),
            FarApart(JDiv(JSub(y0, ym), h), JDiv(JSub(yp, y0), h)))

(* the body of the loop at x = xs[i] with the step h *)
HoleAtBody(w, x, h) ==
  HoleProbed(w, x, h, CallFn(w.f, JSub(x, h)), CallFn(w.f, x), CallFn(w.f, JAdd(x, h)))

HoleSteppedBody(w) == HoleAt(w, linspace(w.a, w.b, w.n, w.i), HoleStep(w))

(* the state of the loop before its first sample, i = 1 *)
HolesBegunBody(text, a, b, count) ==
  [stage |-> "loop", text |-> text, f |-> f([expr |-> text]),
   df |-> df([expr |-> text]), a |-> a, b |-> b,
   n |-> MathMin(count, Num(HoleSampleCap)),
   i |-> 1, started |-> FALSE, x |-> Null, left |-> Null, right |-> Null,
   op |-> "none", corner |-> FALSE, marks |-> <<>>, open |-> 0, lost |-> 0]

(***************************************************************************)
(* The component.  variant tells which of the components of the repository *)
(* is running: "DerivativeGrapher" (src/script.js, and line for line the   *)
(* second App of src/unnamed/part_000) or "App" (the first App of          *)
(* src/unnamed/part_000, with the locked tangent).                          *)
(*                                                                         *)
(* The state variables are those of useState.  f and df are useMemo values *)
(* of expr.  passes is what the drawing effect did during the last event:  *)
(* one record for each run that got past its guard, in order; event names  *)
(* that event, and events counts the events handled so far; the model      *)
(* follows the component through its first MaxEvents events.               *)
(*                                                                         *)
(* stage, given, arg, compiled and result belong to the evaluation of the    *)
(* compile functions on their own (SpecEval below); view, ticks, curve and *)
(* holes to the coordinate mapper, niceTicks, drawCurve and                *)
(* drawDerivativeWithHoles on their own (SpecView, SpecTicks, SpecCurve    *)
(* and SpecHoles below), step by step through their loops, and estimate to *)
(* the effect that estimates yRange, on its own (SpecRange).               *)
(***************************************************************************)

appVars == <<variant, mounted, expr, xMin, xMax, samples, showDerivative, showTangent,
             lockTangent, tangentX, hoverX, error, yRange, dRange, passes, event, events>>
evalVars == <<stage, given, arg, compiled, result>>
drawVars == <<view, ticks, curve, holes, estimate>>
vars == <<appVars, evalVars, drawVars, ranges>>

Variants == {"DerivativeGrapher", "App"}
MaxEvents == 4

(* the message of setError when the expression does not compile *)
ErrorMessage == "Ifade yorumlanamadi."

(* useMemo(() => compileExpression(expr), [expr]) and its derivative twin *)
fBody(s) == compileExpression(s.expr)
dfBody(s) == compileDerivative(s.expr)

(* the values a render sees *)
Snapshot ==
  [expr |-> expr, xMin |-> xMin, xMax |-> xMax, samples |-> samples,
   showDerivative |-> showDerivative, showTangent |-> showTangent,
   lockTangent |-> lockTangent, tangentX |-> tangentX, hoverX |-> hoverX,
   error |-> error, yRange |-> yRange, dRange |-> dRange]

(* evalScalar of the first App: Number(math.parse(text).evaluate()), NaN   *)
(* when that throws (x is not in scope).  The texts of the model hold no   *)
(* Greek pi, so replaceAll leaves them as they are.                        *)
evalScalar(text) ==
  IF MathParse(text) = MathError THEN NaN
  ELSE LET v == Evaluate(MathParse(text), Thrown)
       IN  IF v.k \in {"fin", "pinf", "ninf"} THEN v ELSE NaN

(* A point the canvas accepts: moveTo, lineTo, arc and fillText do nothing *)
(* when an argument is infinite or NaN.                                    *)
OnCanvas(p) == IsFinite(p[1]) /\ IsFinite(p[2])

NoTangent(anchor, x) ==
  [issued |-> FALSE, painted |-> FALSE, anchor |-> anchor, x |-> x, y |-> Null, m |-> Null,
   guide |-> Null, from |-> <<Null, Null>>, to |-> <<Null, Null>>, dot |-> <<Null, Null>>]

(* The drawing calls of drawTangentAt after its guards: the dashed guide   *)
(* at sx, the tangent segment from sA to sB and the dot at (x, y).         *)
(* painted: at least one of them has all its coordinates on the canvas.    *)
TangentLine(anchor, x, y, m, s) ==
  LET yA == JAdd(JMul(m, JSub(s.xMin, x)), y)
      yB == JAdd(JMul(m, JSub(s.xMax, x)), y)
      W == Num(CanvasWidth)
      sx == worldToScreen(x, Num(0), W, PanelHeight, s.xMin, s.xMax, s.yRange[1], s.yRange[2])[1]
      sA == worldToScreen(s.xMin, yA, W, PanelHeight, s.xMin, s.xMax, s.yRange[1], s.yRange[2])
      sB == worldToScreen(s.xMax, yB, W, PanelHeight, s.xMin, s.xMax, s.yRange[1], s.yRange[2])
      s0 == worldToScreen(x, y, W, PanelHeight, s.xMin, s.xMax, s.yRange[1], s.yRange[2])
  IN  [issued |-> TRUE,
       painted |-> IsFinite(sx) \/ (OnCanvas(sA) /\ OnCanvas(sB)) \/ OnCanvas(s0),
       anchor |-> anchor, x |-> x, y |-> y, m |-> m,
       guide |-> sx, from |-> sA, to |-> sB, dot |-> s0]

(* drawTangentAt without the test that f(x) and f'(x) are finite *)
drawTangentAtUnguarded(v, s) ==
  LET xCandidate == IF v = "App" /\ s.lockTangent THEN evalScalar(s.tangentX) ELSE s.hoverX
  IN  IF ~s.showTangent \/ df(s).k # "fn" THEN NoTangent(xCandidate, Null)
      ELSE IF xCandidate = Null THEN NoTangent(xCandidate, Null)
      ELSE IF v = "App" /\ xCandidate = NaN THEN NoTangent(xCandidate, Null)
      ELSE LET x == clamp(xCandidate, s.xMin, s.xMax)
           IN  TangentLine(xCandidate, x, CallFn(f(s), x), CallFn(df(s), x), s)

(* drawTangentAt with the anchor itself for x *)
drawTangentAtUnclamped(v, s) ==
  LET xCandidate == IF v = "App" /\ s.lockTangent THEN evalScalar(s.tangentX) ELSE s.hoverX
  IN  IF ~s.showTangent \/ df(s).k # "fn" THEN NoTangent(xCandidate, Null)
      ELSE IF xCandidate = Null THEN NoTangent(xCandidate, Null)
      ELSE IF v = "App" /\ xCandidate = NaN THEN NoTangent(xCandidate, Null)
      ELSE LET x == xCandidate
               y == CallFn(f(s), x)
               m == CallFn(df(s), x)
           IN  IF ~IsFinite(y) \/ ~IsFinite(m) THEN NoTangent(xCandidate, x)
               ELSE TangentLine(xCandidate, x, y, m, s)

(* drawTangentAt during a render that sees s.  issued: the guards let the  *)
(* drawing calls happen; anchor: the hover x or, when locked, the value of *)
(* the text; x: the clamped anchor.                                        *)
drawTangentAt(v, s) ==
  LET xCandidate == IF v = "App" /\ s.lockTangent THEN evalScalar(s.tangentX) ELSE s.hoverX
  IN  IF ~s.showTangent \/ df(s).k # "fn" THEN NoTangent(xCandidate, Null)
      ELSE IF xCandidate = Null THEN NoTangent(xCandidate, Null)
      ELSE IF v = "App" /\ xCandidate = NaN THEN NoTangent(xCandidate, Null)
      ELSE LET x == clamp(xCandidate, s.xMin, s.xMax)
               y == CallFn(f(s), x)
               m == CallFn(df(s), x)
           IN  IF ~IsFinite(y) \/ ~IsFinite(m) THEN NoTangent(xCandidate, x)
               ELSE TangentLine(xCandidate, x, y, m, s)

(* One run of the drawing effect past its guard, during a render that sees *)
(* s: the ranges the panels are drawn with, and the tangent.               *)
DrawPassBody(v, s) ==
  [yRange |-> s.yRange, dRange |-> s.dRange, tangent |-> drawTangentAt(v, s)]

(* onMove without the test of the panel *)
HoverAtAnywhere(sx, sy, s) ==
  screenToWorld(Num(sx), Num(sy), Num(CanvasWidth), PanelHeight,
                s.xMin, s.xMax, s.yRange[1], s.yRange[2])[1]

(* what onMove hands to setHoverX for a pointer at (sx, sy), during a      *)
(* render that sees s                                                      *)
HoverAtBody(sx, sy, s) ==
  IF JLeq(Num(0), Num(sy)) /\ JLeq(Num(sy), PanelHeight)
  THEN screenToWorld(Num(sx), Num(sy), Num(CanvasWidth), PanelHeight,
                     s.xMin, s.xMax, s.yRange[1], s.yRange[2])[1]
  ELSE Null

(***************************************************************************)
(* A commit: the render after an event has set the state to s, and the     *)
(* effects after it.  Effects run in the order of their definition, each   *)
(* with the values of the render it belongs to:                            *)
(*   1. the yRange effect, when expr, f, xMin, xMax or samples changed:    *)
(*      setError, and setYRange with a new array when f is not null;       *)
(*   2. the dRange effect, likewise, setDRange when df is not null;        *)
(*   3. the drawing effect, when any of its dependencies changed; it       *)
(*      returns at once when f is null.  It draws with s.yRange and        *)
(*      s.dRange: what effects 1 and 2 have just set is not in s.          *)
(* The state set in effects 1 and 2 makes React render again; in that      *)
(* render the range arrays are new, so the drawing effect runs a second    *)
(* time, with the new ranges (effects 1 and 2 do not run again).           *)
(* first is TRUE for the commit of the mount, when every effect runs.      *)
(***************************************************************************)
RangesRun(p, s, first) ==
  first \/ s.expr # p.expr \/ s.xMin # p.xMin \/ s.xMax # p.xMax \/ s.samples # p.samples

(* the range effects without setError("") *)
AfterEffectsKeepError(p, s, first) ==
  IF ~RangesRun(p, s, first) THEN s
  ELSE IF f(s).k # "fn" THEN [s EXCEPT !.error = ErrorMessage]
  ELSE [s EXCEPT !.yRange = estimateRange(f(s), s.xMin, s.xMax, s.samples),
                 !.dRange = estimateRange(df(s), s.xMin, s.xMax, s.samples)]

(* the range effects, were they to put the ranges back when f is null *)
AfterEffectsResetRanges(p, s, first) ==
  IF ~RangesRun(p, s, first) THEN s
  ELSE IF f(s).k # "fn"
  THEN [s EXCEPT !.error = ErrorMessage,
                 !.yRange = <<Num(-5), Num(5)>>, !.dRange = <<Num(-5), Num(5)>>]
  ELSE [s EXCEPT !.error = "",
                 !.yRange = estimateRange(f(s), s.xMin, s.xMax, s.samples),
                 !.dRange = estimateRange(df(s), s.xMin, s.xMax, s.samples)]

AfterEffectsBody(p, s, first) ==
  IF ~RangesRun(p, s, first) THEN s
  ELSE IF f(s).k # "fn" THEN [s EXCEPT !.error = ErrorMessage]
  ELSE [s EXCEPT !.error = "",
                 !.yRange = estimateRange(f(s), s.xMin, s.xMax, s.samples),
                 !.dRange = estimateRange(df(s), s.xMin, s.xMax, s.samples)]

PassesBody(v, p, s, first) ==
  IF (~first /\ s = p) \/ f(s).k # "fn" THEN <<>>
  ELSE IF ~RangesRun(p, s, first) THEN <<DrawPass(v, s)>>
  ELSE <<DrawPass(v, s), DrawPass(v, AfterEffects(p, s, first))>>

(* The state an event sets, from the state p of the render its handler     *)
(* belongs to: the onChange and onClick handlers of the inputs, and the    *)
(* pointer listeners of the canvas.  input is the text of the input, or    *)
(* the pointer's position.                                                 *)
HandledBody(name, input, p) ==
  CASE name = "setExpr" -> [p EXCEPT !.expr = input]
    [] name = "setXMin" -> [p EXCEPT !.xMin = parseFloat(input)]
    [] name = "setXMax" -> [p EXCEPT !.xMax = parseFloat(input)]
    [] name = "setSamples" -> [p EXCEPT !.samples = SamplesOf(input)]
    [] name = "setShowDerivative" -> [p EXCEPT !.showDerivative = ~p.showDerivative]
    [] name = "setShowTangent" -> [p EXCEPT !.showTangent = ~p.showTangent]
    [] name = "setLockTangent" -> [p EXCEPT !.lockTangent = ~p.lockTangent]
    [] name = "setTangentX" -> [p EXCEPT !.tangentX = input]
    [] name = "onMove" -> [p EXCEPT !.hoverX = HoverAt(input[1], input[2], p)]
    [] name = "onLeave" -> [p EXCEPT !.hoverX = Null]
    [] OTHER -> p

(* <<the state after the effects, the runs of the drawing effect>> of the  *)
(* commit that follows the event                                           *)
RenderedBody(v, p, name, input, first) ==
  <<AfterEffects(p, Handled(name, input, p), first),
    Passes(v, p, Handled(name, input, p), first)>>

Apply(name, args) ==
  CASE name = "PAdd" -> PAddBody(args[1], args[2])
    [] name = "PSub" -> PSubBody(args[1], args[2])
    [] name = "PTermMul" -> PTermMulBody(args[1], args[2])
    [] name = "PMul" -> PMulBody(args[1], args[2])
    [] name = "PLess" -> PLessBody(args[1], args[2])
    [] name = "PLeq" -> PLeqBody(args[1], args[2])
    [] name = "PLongDiv" -> PLongDivBody(args[1], args[2], args[3])
    [] name = "PDiv" -> PDivBody(args[1], args[2])
    [] name = "JAdd" -> JAddBody(args[1], args[2])
    [] name = "JSub" -> JSubBody(args[1], args[2])
    [] name = "JMul" -> JMulBody(args[1], args[2])
    [] name = "JDiv" -> JDivBody(args[1], args[2])
    [] name = "JLess" -> JLessBody(args[1], args[2])
    [] name = "JLeq" -> JLeqBody(args[1], args[2])
    [] name = "MathMax" -> MathMaxBody(args[1], args[2])
    [] name = "MathMin" -> MathMinBody(args[1], args[2])
    [] name = "CallFn" -> CallFnBody(args[1], args[2])
    [] name = "Evaluate" -> EvaluateBody(args[1], args[2])
    [] name = "MathParse" -> MathParseBody(args[1])
    [] name = "MathDerivative" -> MathDerivativeBody(args[1])
    [] name = "SampledRange" -> SampledRangeBody(args[1], args[2], args[3], args[4])
    [] name = "f" -> fBody(args[1])
    [] name = "df" -> dfBody(args[1])
    [] name = "DrawPass" -> DrawPassBody(args[1], args[2])
    [] name = "parseFloat" -> parseFloatBody(args[1])
    [] name = "SamplesOf" -> SamplesOfBody(args[1])
    [] name = "HoverAt" -> HoverAtBody(args[1], args[2], args[3])
    [] name = "AfterEffects" -> AfterEffectsBody(args[1], args[2], args[3])
    [] name = "Passes" -> PassesBody(args[1], args[2], args[3], args[4])
    [] name = "SelfTest" -> SelfTestBody(args[1], args[2])
    [] name = "SinP" -> SinPBody(args[1])
    [] name = "RangeTable" -> RangeTableBody(args[1])
    [] name = "Handled" -> HandledBody(args[1], args[2], args[3])
    [] name = "Rendered" -> RenderedBody(args[1], args[2], args[3], args[4], args[5])
    [] name = "HoleStepped" -> HoleSteppedBody(args[1])
    [] name = "HoleAt" -> HoleAtBody(args[1], args[2], args[3])
    [] name = "HoleProbed" ->
         HoleProbedBody(args[1], args[2], args[3], args[4], args[5], args[6])
    [] name = "HolesBegun" -> HolesBegunBody(args[1], args[2], args[3], args[4])
    [] name = "CurveStepped" -> CurveSteppedBody(args[1])
    [] name = "RangeBegun" -> RangeBegunBody(args[1], args[2], args[3], args[4])
    [] name = "RangeStepped" -> RangeSteppedBody(args[1])
    [] name = "RangeReturned" -> RangeReturnedBody(args[1])
    [] name = "CurveBegun" -> CurveBegunBody(args[1], args[2], args[3], args[4], args[5])
    [] name = "TicksBegun" -> TicksBegunBody(args[1], args[2], args[3])
    [] name = "TickDue" -> TickDueBody(args[1])
    [] name = "TickPushed" -> TickPushedBody(args[1])
    [] name = "FloorTo" -> FloorToBody(args[1], args[2])
    [] name = "CarryOf" -> CarryOfBody(args[1], args[2])
    [] name = "DecadeBelow" -> DecadeBelowBody(args[1])
    [] name = "NiceStep" -> NiceStepBody(args[1], args[2])
    [] name = "SpanOf" -> SpanOfBody(args[1], args[2])
    [] name = "worldToScreen" ->
         worldToScreenBody(args[1], args[2], args[3], args[4], args[5], args[6], args[7], args[8])
    [] name = "screenToWorld" ->
         screenToWorldBody(args[1], args[2], args[3], args[4], args[5], args[6], args[7], args[8])

(* An event and the commit after it: r[1] is the state after the effects,  *)
(* r[2] the runs of the drawing effect.  An event that sets the state to   *)
(* what it is renders nothing.                                             *)
Commit(name, input, first) ==
  /\ events < MaxEvents
  /\ \E r \in {Rendered(variant, Snapshot, name, input, first)} :
    /\ events' = events + 1
    /\ event' = name
    /\ expr' = r[1].expr /\ xMin' = r[1].xMin /\ xMax' = r[1].xMax
    /\ samples' = r[1].samples
    /\ showDerivative' = r[1].showDerivative /\ showTangent' = r[1].showTangent
    /\ lockTangent' = r[1].lockTangent /\ tangentX' = r[1].tangentX
    /\ hoverX' = r[1].hoverX
    /\ error' = r[1].error /\ yRange' = r[1].yRange /\ dRange' = r[1].dRange
    /\ passes' = r[2]
    /\ UNCHANGED <<ranges, variant, evalVars, drawVars>>

(* the state after construction: the useState defaults, nothing rendered *)
Constructed ==
  /\ variant \in Variants
  /\ mounted = FALSE
  /\ expr = TxtDefault
  /\ xMin = Num(-10) /\ xMax = Num(10)
  /\ samples = Num(800)
  /\ showDerivative = TRUE /\ showTangent = TRUE
  /\ lockTangent = FALSE /\ tangentX = TxtZero
  /\ hoverX = Null
  /\ error = ""
  /\ yRange = <<Num(-5), Num(5)>> /\ dRange = <<Num(-5), Num(5)>>
  /\ passes = <<>> /\ event = "none" /\ events = 0

(* nothing compiled on its own, and no drawing function running on its own *)
Idle == [stage |-> "off"]
EvalOff ==
  /\ stage = "off" /\ given = TxtEmpty /\ arg = Num(0)
  /\ compiled = <<NoFn, NoFn>> /\ result = <<Null, Null, Null>>

Init ==
  /\ ranges = RangeTable(ExprInputs)
  /\ Constructed
  /\ EvalOff
  /\ view = Idle /\ ticks = Idle /\ curve = Idle /\ holes = Idle /\ estimate = Idle

(* the first render, with the state as constructed *)
Mount ==
  /\ ~mounted
  /\ mounted' = TRUE
  /\ Commit("mount", Null, TRUE)

(* the expression input and the preset buttons *)
SetExpr(text) ==
  /\ mounted /\ UNCHANGED mounted
  /\ Commit("setExpr", text, FALSE)

SetXMin(text) ==
  /\ mounted /\ UNCHANGED mounted
  /\ Commit("setXMin", text, FALSE)

SetXMax(text) ==
  /\ mounted /\ UNCHANGED mounted
  /\ Commit("setXMax", text, FALSE)

SetSamples(text) ==
  /\ mounted /\ UNCHANGED mounted
  /\ Commit("setSamples", text, FALSE)

SetShowDerivative ==
  /\ mounted /\ UNCHANGED mounted
  /\ Commit("setShowDerivative", Null, FALSE)

SetShowTangent ==
  /\ mounted /\ UNCHANGED mounted
  /\ Commit("setShowTangent", Null, FALSE)

(* the lock checkbox exists in the first App only, and while the tangent   *)
(* is enabled; the text of the locked x while the lock is set              *)
SetLockTangent ==
  /\ mounted /\ UNCHANGED mounted
  /\ variant = "App" /\ showTangent
  /\ Commit("setLockTangent", Null, FALSE)

SetTangentX(text) ==
  /\ mounted /\ UNCHANGED mounted
  /\ variant = "App" /\ showTangent /\ lockTangent
  /\ Commit("setTangentX", text, FALSE)

(* mousemove over the canvas at (sx, sy) *)
OnMove(sx, sy) ==
  /\ mounted /\ UNCHANGED mounted
  /\ Commit("onMove", <<sx, sy>>, FALSE)

OnLeave ==
  /\ mounted /\ UNCHANGED mounted
  /\ Commit("onLeave", Null, FALSE)

Next ==
  \/ Mount
  \/ \E text \in ExprInputs : SetExpr(text)
  \/ \E text \in XMinInputs : SetXMin(text)
  \/ \E text \in XMaxInputs : SetXMax(text)
  \/ \E text \in SampleInputs : SetSamples(text)
  \/ SetShowDerivative
  \/ SetShowTangent
  \/ SetLockTangent
  \/ \E text \in TangentInputs : SetTangentX(text)
  \/ \E sx \in PointerXs, sy \in PointerYs : OnMove(sx, sy)
  \/ OnLeave

Spec == Init /\ [][Next]_vars


(***************************************************************************)
(* The compile functions on their own, the way runSelfTests uses them:     *)
(* compile a text both ways, then call the results at a point.  given is   *)
(* the text and arg the point; compiled is <<f, df>>; result is            *)
(* <<f(arg), df(arg), d>>, d being what the closure of the numeric tier    *)
(* yields for f at arg, whether or not df is that closure.                 *)
(***************************************************************************)
EvalTexts ==
  {TxtDefault, TxtSin, TxtSquare, TxtGauss, TxtCubic, TxtLog, TxtAbs, TxtPiecewise, TxtStep,
   TxtRecip, TxtFive, TxtFreeSymbol, TxtBars, TxtPaddedSquare, TxtEmpty, TxtBlank,
   TxtDangling, TxtBarsSum, TxtZero, TxtX}
EvalArgs ==
  {Num(-2), Num(-1), Num(0), Rat(1, 2), Num(1), Num(2), Num(3), NaN, PosInf, NegInf}

EvalInit ==
  /\ Constructed
  /\ ranges = <<>>
  /\ stage = "input" /\ given \in EvalTexts /\ arg \in EvalArgs
  /\ compiled = <<NoFn, NoFn>> /\ result = <<Null, Null, Null>>
  /\ view = Idle /\ ticks = Idle /\ curve = Idle /\ holes = Idle /\ estimate = Idle

Compile ==
  /\ stage = "input"
  /\ stage' = "compiled"
  /\ compiled' = <<compileExpression(given), compileDerivative(given)>>
  /\ UNCHANGED <<ranges, given, arg, result, appVars, drawVars>>

Call ==
  /\ stage = "compiled"
  /\ compiled[1].k = "fn"
  /\ stage' = "called"
  /\ result' = SelfTest(compiled, arg)
  /\ UNCHANGED <<ranges, given, arg, compiled, appVars, drawVars>>

EvalNext == Compile \/ Call

SpecEval == EvalInit /\ [][EvalNext]_vars


(***************************************************************************)
(* The coordinate mapper on its own: a point is mapped to the screen and   *)
(* back with the same viewport.  view holds the point <<x, y>>, the        *)
(* viewport <<W, H, xMin, xMax, yMin, yMax>>, and the two results.  The    *)
(* points are points of the plane and the two corners of the viewport; the *)
(* viewports are panels of the canvas, with ranges as the inputs and the   *)
(* range estimator give them, and degenerate ones (W = 0, H = 0,           *)
(* xMin = xMax, yMin = yMax).                                              *)
(***************************************************************************)
ViewXs == {Num(-10), Num(0), Rat(1, 3), Num(7)}
ViewYs == {Num(-5), Rat(5, 2)}
ViewWidths == {Num(CanvasWidth), Num(0)}
ViewHeights == {PanelHeight, Num(0)}
ViewXRanges == {<<Num(-10), Num(10)>>, <<Num(1), Num(-1)>>, <<Num(2), Num(2)>>}
ViewYRanges ==
  {<<Num(-5), Num(5)>>, <<WithEps2(-6, 5, -10, 1), WithEps2(6, 5, 10, 1)>>,
   <<Num(3), Num(3)>>}

ViewInit ==
  /\ Constructed
  /\ ranges = <<>>
  /\ EvalOff
  /\ \E W \in ViewWidths, H \in ViewHeights, xr \in ViewXRanges, yr \in ViewYRanges :
       \E pt \in (ViewXs \X ViewYs) \cup {<<xr[1], yr[1]>>, <<xr[2], yr[2]>>} :
         view = [stage |-> "input", point |-> pt, port |-> <<W, H, xr[1], xr[2], yr[1], yr[2]>>,
                 screen |-> <<Null, Null>>, world |-> <<Null, Null>>]
  /\ ticks = Idle /\ curve = Idle /\ holes = Idle /\ estimate = Idle

Project ==
  /\ view.stage = "input"
  /\ view' = [view EXCEPT !.stage = "projected",
                          !.screen = worldToScreen(view.point[1], view.point[2],
                                                   view.port[1], view.port[2], view.port[3],
                                                   view.port[4], view.port[5], view.port[6])]
  /\ UNCHANGED <<ranges, appVars, evalVars, ticks, curve, holes, estimate>>

Unproject ==
  /\ view.stage = "projected"
  /\ view' = [view EXCEPT !.stage = "returned",
                          !.world = screenToWorld(view.screen[1], view.screen[2],
                                                  view.port[1], view.port[2], view.port[3],
                                                  view.port[4], view.port[5], view.port[6])]
  /\ UNCHANGED <<ranges, appVars, evalVars, ticks, curve, holes, estimate>>

ViewNext == Project \/ Unproject

SpecView == ViewInit /\ [][ViewNext]_vars


(***************************************************************************)
(* niceTicks on its own, with the default target, through its loop: ticks  *)
(* holds min, max, the step, the loop's v and the ticks pushed so far.     *)
(* The pairs <<min, max>> are domains the inputs can give (one with        *)
(* min > max, one ending 5e-13 below 0.3, one from 0 to 8e-13), ranges of  *)
(* the range estimator, and pairs with min = max.                          *)
(***************************************************************************)
TickTarget == 8
MaxTicks == 30
TickRanges ==
  {<<Num(-10), Num(10)>>, <<Num(-5), Num(5)>>, <<Num(1), Num(10)>>, <<Num(0), Rat(3, 10)>>,
   <<Num(0), WithEps2(3, 10, -1, 200)>>, <<Num(0), Fin(<<<<2, 1, 125>>>>)>>,
   <<Rat(1, 3), Num(7)>>, <<Num(-1), Rat(1, 4)>>,
   <<WithEps2(-6, 5, -10, 1), WithEps2(6, 5, 10, 1)>>,
   <<WithEps2(-12, 1, -10, 1), WithEps2(12, 1, 10, 1)>>,
   <<Num(5), Num(5)>>, <<Rat(1, 20), Rat(1, 20)>>, <<Num(0), Num(0)>>, <<Num(10), Num(-10)>>}

TicksInit ==
  /\ Constructed
  /\ ranges = <<>>
  /\ EvalOff
  /\ \E r \in TickRanges : ticks = [stage |-> "input", min |-> r[1], max |-> r[2]]
  /\ view = Idle /\ curve = Idle /\ holes = Idle /\ estimate = Idle

TicksBegin ==
  /\ ticks.stage = "input"
  /\ ticks' = TicksBegun(ticks.min, ticks.max, TickTarget)
  /\ UNCHANGED <<ranges, appVars, evalVars, view, curve, holes, estimate>>

TicksPush ==
  /\ ticks.stage = "loop"
  /\ Len(ticks.out) < MaxTicks
  /\ TickDue(ticks)
  /\ ticks' = TickPushed(ticks)
  /\ UNCHANGED <<ranges, appVars, evalVars, view, curve, holes, estimate>>

TicksReturn ==
  /\ ticks.stage = "loop"
  /\ ~TickDue(ticks)
  /\ ticks' = [ticks EXCEPT !.stage = "returned"]
  /\ UNCHANGED <<ranges, appVars, evalVars, view, curve, holes, estimate>>

TicksNext == TicksBegin \/ TicksPush \/ TicksReturn

SpecTicks == TicksInit /\ [][TicksNext]_vars


(***************************************************************************)
(* drawCurve for the curve of f on its own, through its loop, in each      *)
(* variant of the component: the step function and log(x) over the default *)
(* domain, 1/x over [-5, 5] and, with a sample at 0, over [-1, 1], and x   *)
(* over [-1, 1], whose samples are 0.02 apart.                             *)
(***************************************************************************)
CurveCases ==
  ({"DerivativeGrapher", "App"} \X {TxtStep} \X {<<Num(-10), Num(10)>>} \X {Num(800), Num(101)})
  \cup ({"DerivativeGrapher", "App"} \X {TxtRecip}
          \X {<<Num(-5), Num(5)>>} \X {Num(800)})
  \cup ({"DerivativeGrapher", "App"} \X {TxtRecip} \X {<<Num(-1), Num(1)>>} \X {Num(101)})
  \cup ({"DerivativeGrapher", "App"} \X {TxtLog} \X {<<Num(-10), Num(10)>>} \X {Num(100)})
  \cup ({"DerivativeGrapher", "App"} \X {TxtX} \X {<<Num(-1), Num(1)>>} \X {Num(101)})

CurveInit ==
  /\ Constructed
  /\ ranges = <<>>
  /\ EvalOff
  /\ \E case \in CurveCases :
       /\ variant = case[1]
       /\ curve = [stage |-> "input", v |-> case[1], text |-> case[2],
                a |-> case[3][1], b |-> case[3][2], n |-> case[4]]
  /\ view = Idle /\ ticks = Idle /\ holes = Idle /\ estimate = Idle

(* ctx.beginPath() and the loop's variables *)
CurveBegin ==
  /\ curve.stage = "input"
  /\ curve' = CurveBegun(curve.v, curve.text, curve.a, curve.b, curve.n)
  /\ UNCHANGED <<ranges, appVars, evalVars, view, ticks, holes, estimate>>

(* one sample *)
CurveSample ==
  /\ curve.stage = "loop"
  /\ curve.i < ArrayLength(curve.n)
  /\ curve' = CurveStepped(curve)
  /\ UNCHANGED <<ranges, appVars, evalVars, view, ticks, holes, estimate>>

(* the end of the loop, and ctx.stroke() *)
CurveStroke ==
  /\ curve.stage = "loop"
  /\ curve.i >= ArrayLength(curve.n)
  /\ curve' = [curve EXCEPT !.stage = "done"]
  /\ UNCHANGED <<ranges, appVars, evalVars, view, ticks, holes, estimate>>

CurveNext == CurveBegin \/ CurveSample \/ CurveStroke

SpecCurve == CurveInit /\ [][CurveNext]_vars


(***************************************************************************)
(* drawDerivativeWithHoles on its own, through its loop, with the          *)
(* derivative shown: abs(x) and the piecewise expression over the default  *)
(* domain with 800 and with 101 samples (0 is a sample then), and over     *)
(* [-10, 7] with 101 samples (0 lies between two samples, off the middle). *)
(***************************************************************************)
HoleCases ==
  {TxtAbs, TxtPiecewise}
    \X {<<Num(-10), Num(10), Num(800)>>, <<Num(-10), Num(10), Num(101)>>,
        <<Num(-10), Num(7), Num(101)>>}

HolesInit ==
  /\ Constructed
  /\ ranges = <<>>
  /\ EvalOff
  /\ variant = "App"
  /\ \E case \in HoleCases :
       holes = [stage |-> "input", text |-> case[1], a |-> case[2][1], b |-> case[2][2],
                count |-> case[2][3]]
  /\ view = Idle /\ ticks = Idle /\ curve = Idle /\ estimate = Idle

HolesBegin ==
  /\ holes.stage = "input"
  /\ holes' = HolesBegun(holes.text, holes.a, holes.b, holes.count)
  /\ UNCHANGED <<ranges, appVars, evalVars, view, ticks, curve, estimate>>

(* one sample, from i = 1 to xs.length - 2 *)
HolesSample ==
  /\ holes.stage = "loop"
  /\ holes.i < ArrayLength(holes.n) - 1
  /\ holes' = HoleStepped(holes)
  /\ UNCHANGED <<ranges, appVars, evalVars, view, ticks, curve, estimate>>

(* the end of the loop, and ctx.stroke() *)
HolesStroke ==
  /\ holes.stage = "loop"
  /\ holes.i >= ArrayLength(holes.n) - 1
  /\ holes' = [holes EXCEPT !.stage = "done"]
  /\ UNCHANGED <<ranges, appVars, evalVars, view, ticks, curve, estimate>>

HolesNext == HolesBegin \/ HolesSample \/ HolesStroke

SpecHoles == HolesInit /\ [][HolesNext]_vars


(***************************************************************************)
(* The effect that estimates yRange on its own, through its loop: for the  *)
(* default text, abs(x), the step function, the constants 5 and 1e20, 1/x  *)
(* and log(x), and a text that does not compile, over two domains, with    *)
(* sample counts below and above 400 and the NaN of a field that does not  *)
(* parse.                                                                  *)
(***************************************************************************)
RangeCases ==
  ({TxtDefault, TxtAbs, TxtStep, TxtFive, TxtHuge, TxtRecip, TxtLog, TxtDangling}
     \X {<<Num(-10), Num(10)>>, <<Num(1), Num(10)>>} \X {Num(100), Num(800)})
  \cup ({TxtFive} \X {<<Num(-10), Num(10)>>} \X {NaN})

RangeInit ==
  /\ Constructed
  /\ ranges = <<>>
  /\ EvalOff
  /\ variant = "DerivativeGrapher"
  /\ \E case \in RangeCases :
       estimate = [stage |-> "input", text |-> case[1], a |-> case[2][1], b |-> case[2][2],
                   count |-> case[3]]
  /\ view = Idle /\ ticks = Idle /\ curve = Idle /\ holes = Idle

RangeBegin ==
  /\ estimate.stage = "input"
  /\ estimate' = RangeBegun(estimate.text, estimate.a, estimate.b, estimate.count)
  /\ UNCHANGED <<ranges, appVars, evalVars, view, ticks, curve, holes>>

(* one sample *)
RangeSample ==
  /\ estimate.stage = "loop"
  /\ estimate.i < ArrayLength(estimate.n)
  /\ estimate' = RangeStepped(estimate)
  /\ UNCHANGED <<ranges, appVars, evalVars, view, ticks, curve, holes>>

(* the end of the loop, and setYRange *)
RangeReturn ==
  /\ estimate.stage = "loop"
  /\ estimate.i >= ArrayLength(estimate.n)
  /\ estimate' = RangeReturned(estimate)
  /\ UNCHANGED <<ranges, appVars, evalVars, view, ticks, curve, holes>>

RangeNext == RangeBegin \/ RangeSample \/ RangeReturn

SpecRange == RangeInit /\ [][RangeNext]_vars


(***************************************************************************)
(* Properties.  C1 to C4 are stated of SpecEval, C11 of SpecView, C12 and  *)
(* C27 of SpecTicks, C13, C14, C16, C21, C22 and C25 of SpecCurve, C15,    *)
(* C23 and C24 of SpecHoles, C26 of SpecRange, the others of Spec.         *)
(***************************************************************************)
TheSource == normalizeExpr(given)
Unparsed == TheSource = <<>> \/ MathParse(TheSource) = MathError

(* C1: compileExpression never throws: for every text (empty, blank and    *)
(* unparseable ones included) it returns null or a callable, and it        *)
(* returns null whenever parsing the normalized text fails.                *)
C1_CompileReturnsNullOrCallable ==
  stage # "input" =>
    /\ compiled[1].k \in {"null", "fn"}
    /\ (Unparsed => compiled[1] = NoFn)
    /\ (~Unparsed => compiled[1].k = "fn")

(* an unparseable text has been compiled, to null *)
C1_UnparseableCompiled ==
  stage = "compiled" /\ given = TxtDangling /\ compiled[1] = NoFn

(* C2: a callable returned by compileExpression never raises and returns   *)
(* a finite number or NaN for every argument: an evaluation that throws,   *)
(* or yields an infinity, NaN or no number at all, is returned as NaN.     *)
C2_CallableReturnsFiniteOrNaN ==
  stage = "called" =>
    /\ result[1].k \in {"fin", "nan"}
    /\ (~IsFinite(Evaluate(compiled[1].node, arg)) => result[1] = NaN)
    /\ (IsFinite(Evaluate(compiled[1].node, arg)) => result[1] = Evaluate(compiled[1].node, arg))

(* 1/x has been called at 0, where the evaluation yields Infinity *)
C2_InfinityReturnedAsNaN ==
  /\ stage = "called" /\ given = TxtRecip /\ arg = Num(0)
  /\ Evaluate(compiled[1].node, arg) = PosInf
  /\ result[1] = NaN

(* C3: compileDerivative returns null exactly when compileExpression does; *)
(* otherwise it returns a callable, the symbolic one when math.derivative  *)
(* succeeds and else the central difference on the expression itself, and  *)
(* that callable returns only finite numbers or NaN.                       *)
C3_DerivativeNullExactlyWhenExpressionNull ==
  /\ stage # "input" =>
       /\ compiled[2].k \in {"null", "fn"}
       /\ (compiled[2] = NoFn <=> compiled[1] = NoFn)
       /\ compiled[1].k = "fn" =>
            IF MathDerivative(TheSource) # MathError
            THEN compiled[2] = Fn("symbolic", MathDerivative(TheSource))
            ELSE compiled[2] = Fn("numeric", compiled[1].node)
  /\ stage = "called" => result[2].k \in {"fin", "nan"}

(* the piecewise expression got the numeric tier, and it has been called *)
C3_NumericTierCalled ==
  /\ stage = "called" /\ given = TxtPiecewise
  /\ compiled[2].tier = "numeric" /\ IsFinite(result[2])

(* |v - c| <= 1e-6, v finite *)
Within(v, c) == IsFinite(v) /\ JLeq(MathAbs(JSub(v, Num(c))), Fin(PEps(1, 1, 10)))

(* C4: the derivative of x^2 at 3 is 6 and that of x^3 - 3*x at -2 is 9,   *)
(* within 1e-6, from the callable compileDerivative returns and from the   *)
(* central difference with h = 1e-5 * max(1, |x|) alike.                   *)
C4_DerivativeWithinTolerance ==
  /\ (stage = "called" /\ given = TxtSquare /\ arg = Num(3)) =>
       Within(result[2], 6) /\ Within(result[3], 6)
  /\ (stage = "called" /\ given = TxtCubic /\ arg = Num(-2)) =>
       Within(result[2], 9) /\ Within(result[3], 9)

(* the cubic has been differentiated at -2 by both tiers, which differ *)
C4_CubicDifferentiated ==
  /\ stage = "called" /\ given = TxtCubic /\ arg = Num(-2)
  /\ compiled[2].tier = "symbolic" /\ result[3] # result[2]

(* the passes of the last event, as a set *)
PassSet == {passes[i] : i \in 1..Len(passes)}
IsAbs == normalizeExpr(expr) = TxtAbs
AbsDerivativeAtZero == CallFn(compileDerivative(TxtAbs), Num(0))

(* C5 as stated: for abs(x) the derivative callable returns a non-finite   *)
(* value at 0, and no tangent is drawn when the locked or hover anchor is  *)
(* exactly 0.                                                              *)
C5_NoTangentWhenAnchorIsZero ==
  /\ ~IsFinite(AbsDerivativeAtZero)
  /\ \A pass \in PassSet : (IsAbs /\ pass.tangent.anchor = Num(0)) => ~pass.tangent.painted

(* C5, as the code has it: for abs(x) the derivative callable returns a    *)
(* non-finite value at 0, and no tangent is drawn when the anchor clamped  *)
(* into [xMin, xMax] is exactly 0, as it is for an anchor 0 whenever       *)
(* xMin <= 0 <= xMax; an anchor 0 outside the domain is moved to the       *)
(* nearer bound, where the tangent is drawn.                               *)
C5_NoTangentWhenClampedAnchorIsZero ==
  /\ ~IsFinite(AbsDerivativeAtZero)
  /\ \A pass \in PassSet :
       /\ (IsAbs /\ pass.tangent.x = Num(0)) => ~pass.tangent.painted
       /\ (IsAbs /\ pass.tangent.anchor = Num(0) /\ JLeq(xMin, Num(0)) /\ JLeq(Num(0), xMax))
            => ~pass.tangent.painted
       /\ (IsAbs /\ pass.tangent.anchor = Num(0) /\ pass.tangent.painted)
            => pass.tangent.x \in {xMin, xMax} /\ pass.tangent.x # Num(0)

(* abs(x) with the tangent enabled and the anchor at 0 inside the domain:  *)
(* drawTangentAt got to the derivative and drew nothing                    *)
C5_AnchorZeroInDomain ==
  /\ IsAbs /\ showTangent
  /\ \E pass \in PassSet :
       pass.tangent.anchor = Num(0) /\ pass.tangent.x = Num(0) /\ ~pass.tangent.issued

(* C6: the tangent is hidden at the corner and at the jump: for            *)
(* x<0?-x:x^2 and for x<0?-1:1 no tangent is drawn at x = 0.               *)
C6_NoTangentAtCornerOrJump ==
  \A pass \in PassSet :
    (expr \in {TxtPiecewise, TxtStep} /\ pass.tangent.x = Num(0)) => ~pass.tangent.painted

(* C7 as stated: in every pass that draws a tangent the toggle is on, the  *)
(* anchor is neither null nor NaN, x lies in [xMin, xMax] and f and f' are *)
(* finite at x.                                                            *)
C7_TangentOnlyInsideDomain ==
  \A pass \in PassSet :
    pass.tangent.painted =>
      /\ showTangent
      /\ pass.tangent.anchor \notin {Null, NaN}
      /\ JLeq(xMin, pass.tangent.x) /\ JLeq(pass.tangent.x, xMax)
      /\ IsFinite(CallFn(compileExpression(expr), pass.tangent.x))
      /\ IsFinite(CallFn(compileDerivative(expr), pass.tangent.x))

(* C7, as the code has it: in every pass that draws a tangent the toggle   *)
(* is on, the anchor is neither null nor NaN, x is                         *)
(* max(xMin, min(xMax, anchor)), which is at least xMin and, when          *)
(* xMin <= xMax, at most xMax, and f and f' are finite at x.               *)
C7_TangentAtClampedAnchor ==
  \A pass \in PassSet :
    pass.tangent.painted =>
      /\ showTangent
      /\ pass.tangent.anchor \notin {Null, NaN}
      /\ pass.tangent.x = MathMax(xMin, MathMin(xMax, pass.tangent.anchor))
      /\ JLeq(xMin, pass.tangent.x)
      /\ (JLeq(xMin, xMax) => JLeq(pass.tangent.x, xMax))
      /\ IsFinite(CallFn(compileExpression(expr), pass.tangent.x))
      /\ IsFinite(CallFn(compileDerivative(expr), pass.tangent.x))

(* a tangent has been drawn at an anchor that the clamp had to move, in a  *)
(* domain with xMin <= xMax                                                *)
C7_ClampedTangentDrawn ==
  /\ JLeq(xMin, xMax)
  /\ \E pass \in PassSet : pass.tangent.painted /\ pass.tangent.x # pass.tangent.anchor

(* the estimator found no finite sample of fn over the current domain *)
NoFiniteSample(fn) ==
  /\ fn.k = "fn"
  /\ SampledRange(fn, xMin, xMax, RangeSamples(samples)) = <<PosInf, NegInf>>

(* C8 as stated: when the estimator finds no finite sample, the range it   *)
(* produces is [-1, 1].                                                    *)
C8_EmptyRangeIsUnit ==
  mounted =>
    /\ (NoFiniteSample(compileExpression(expr)) => yRange = <<Num(-1), Num(1)>>)
    /\ (NoFiniteSample(compileDerivative(expr)) => dRange = <<Num(-1), Num(1)>>)

(* 0.2 + 1e-9: the padding of [-1, 1] *)
UnitPad == JAdd(Rat(1, 5), PadEpsilon)

(* C8, as the code has it: when the estimator finds no finite sample, it   *)
(* takes [-1, 1] for the range before padding and pads it like any other:  *)
(* the range it produces is [-1.2 - 1e-9, 1.2 + 1e-9].                     *)
C8_EmptyRangeIsPaddedUnit ==
  mounted =>
    /\ NoFiniteSample(compileExpression(expr)) =>
         yRange = <<JSub(Num(-1), UnitPad), JAdd(Num(1), UnitPad)>>
    /\ NoFiniteSample(compileDerivative(expr)) =>
         dRange = <<JSub(Num(-1), UnitPad), JAdd(Num(1), UnitPad)>>

(* abs(x) has been sampled over a domain whose xMin is NaN *)
C8_NothingFiniteSampled ==
  /\ mounted /\ expr = TxtAbs /\ xMin = NaN
  /\ NoFiniteSample(compileExpression(expr))
  /\ event = "setXMin"

(* the value all finite samples of fn have, Null when there is none or     *)
(* when they differ                                                        *)
SingleValue(fn) ==
  LET r == IF fn.k = "fn" THEN SampledRange(fn, xMin, xMax, RangeSamples(samples))
           ELSE <<PosInf, NegInf>>
  IN  IF IsFinite(r[1]) /\ r[1] = r[2] THEN r[1] ELSE Null

C10_NoDrawWithStaleRange ==
  event \in {"setExpr", "setXMin", "setXMax", "setSamples"} =>
    \A pass \in PassSet :
      /\ pass.yRange = estimateRange(compileExpression(expr), xMin, xMax, samples)
      /\ pass.dRange = estimateRange(compileDerivative(expr), xMin, xMax, samples)

(* C17: after a mousemove the hover x is set (not null) exactly when the   *)
(* pointer's sy lies in the upper panel, 0 <= sy <= panelH = (H - gap) / 2; *)
(* a mousemove outside that band and a mouseleave set it to null.  (A      *)
(* mousemove at (sx, sy) is a step to the hover x that onMove sets there.) *)
C17_HoverTracksPointer ==
  [][/\ event' = "onMove" =>
          \A sx \in PointerXs, sy \in PointerYs :
            hoverX' = HoverAt(sx, sy, Snapshot) =>
              (hoverX' # Null <=> (0 <= sy /\ 2 * sy <= CanvasHeight - Gap))
     /\ event' = "onLeave" => hoverX' = Null]_vars

(* the pointer has moved within the upper panel *)
C17_PointerInUpperPanel ==
  event = "onMove" /\ hoverX # Null

(* C18: whatever text the samples input delivers, the sample count of the  *)
(* state is an integer between 100 and 4000.                               *)
C18_SamplesWithinBounds ==
  /\ samples.k = "fin"
  /\ JLeq(Num(MinSamples), samples) /\ JLeq(samples, Num(MaxSamples))
  /\ samples = Num(PFloor(samples.v))

(* C19: once the effects have run, the diagnostic is shown exactly when    *)
(* the current expression does not compile, and it is the fixed message;   *)
(* an expression that compiles clears it.                                  *)
C19_ErrorExactlyWhenNotCompiled ==
  mounted =>
    /\ (error # "" <=> compileExpression(expr) = NoFn)
    /\ (error # "" => error = ErrorMessage)

(* an expression that does not parse is current, and the message is shown *)
C19_DiagnosticShown ==
  mounted /\ expr = TxtDangling /\ error = ErrorMessage

(* C20: an event that leaves an expression that does not compile current   *)
(* draws nothing (the drawing effect returns at its guard) and leaves      *)
(* yRange and dRange as they were.                                         *)
C20_NothingDrawnWhileNotCompiled ==
  [][compileExpression(expr').k # "fn" =>
       passes' = <<>> /\ yRange' = yRange /\ dRange' = dRange]_vars

(* an expression that does not compile is current, after ranges had been   *)
(* estimated for another one                                               *)
C20_FailedAfterEstimate ==
  /\ mounted /\ compileExpression(expr) = NoFn /\ passes = <<>>
  /\ yRange # <<Num(-5), Num(5)>>

(* the viewport of view is not degenerate *)
ProperPort ==
  /\ view.port[1] # Num(0) /\ view.port[2] # Num(0)
  /\ view.port[3] # view.port[4] /\ view.port[5] # view.port[6]

(* p and q are finite and differ by no more than 1e-9 *)
Near(p, q) == JLeq(MathAbs(JSub(p, q)), Fin(PEps(2, 10, 1)))

(* C11: for a viewport with W # 0, H # 0, xMin # xMax and yMin # yMax,     *)
(* screenToWorld of worldToScreen(x, y) is (x, y) again, up to the         *)
(* rounding of the arithmetic, and worldToScreen maps (xMin, yMin) to      *)
(* (0, H) and (xMax, yMax) to (W, 0).                                      *)
C11_RoundTripAndCorners ==
  (view.stage # "off" /\ ProperPort) =>
    /\ view.stage = "returned" =>
         Near(view.world[1], view.point[1]) /\ Near(view.world[2], view.point[2])
    /\ (view.stage # "input" /\ view.point = <<view.port[3], view.port[5]>>) =>
         view.screen = <<Num(0), view.port[2]>>
    /\ (view.stage # "input" /\ view.point = <<view.port[4], view.port[6]>>) =>
         view.screen = <<view.port[1], Num(0)>>

(* a point off the corners has gone to the screen and back, through a      *)
(* viewport with an inverted x range and a padded y range                  *)
C11_PointReturned ==
  /\ view.stage = "returned" /\ ProperPort
  /\ view.point = <<Rat(1, 3), Rat(5, 2)>>
  /\ view.port[3] = Num(1) /\ view.port[5] # Num(-5)

(* C12: for finite min <= max (min = max included) and the default target, *)
(* niceTicks ends, and its ticks increase strictly and lie within          *)
(* [min, max].                                                             *)
C12_TicksIncreaseWithinRange ==
  (ticks.stage \in {"loop", "returned"} /\ JLeq(ticks.min, ticks.max)) =>
    /\ Len(ticks.out) < MaxTicks
    /\ \A i \in 1..Len(ticks.out) :
         /\ JLeq(ticks.min, ticks.out[i]) /\ JLeq(ticks.out[i], ticks.max)
         /\ i > 1 => JLess(ticks.out[i - 1], ticks.out[i])

(* a sample has been handled *)
Sampled == curve.stage \in {"loop", "done"} /\ curve.i > 0

(* C13: for the step function over a domain with 0 in its interior, the    *)
(* curve of f has at least two subpaths, and no subpath holds both a       *)
(* sample with x < 0 and a sample with x >= 0.                             *)
C13_StepCurveSplitAtZero ==
  (curve.stage # "off" /\ curve.text = TxtStep) =>
    /\ curve.stage = "done" => curve.paths >= 2
    /\ (Sampled /\ curve.op = "lineTo") =>
         ~(JLess(curve.fromX, Num(0)) /\ JLeq(Num(0), curve.x))

(* C14: for 1/x over [-5, 5] with 800 samples every sample is finite, and  *)
(* the jump test of the first App cuts the path between the two samples    *)
(* on either side of 0: the second of them starts a new subpath.           *)
C14_PoleCutByJumpTest ==
  (Sampled /\ curve.v = "App" /\ curve.text = TxtRecip /\ curve.n = Num(800)) =>
    /\ IsFinite(curve.y)
    /\ (curve.i > 1 /\ JLess(curve.prevX, Num(0)) /\ JLess(Num(0), curve.x)) =>
         curve.cut /\ curve.op = "moveTo"

(* the sample right of 0 has been handled *)
C14_PoleStraddled ==
  /\ Sampled /\ curve.v = "App" /\ curve.text = TxtRecip /\ curve.n = Num(800)
  /\ curve.i > 1 /\ JLess(curve.prevX, Num(0)) /\ JLess(Num(0), curve.x)
  /\ curve.cut

(* C16: a sample whose value is not finite ends the subpath in progress    *)
(* and adds no point, so that no line is drawn to or from it; for log(x)   *)
(* no sample with x <= 0 has a point.                                      *)
C16_NonFiniteSampleBreaksPath ==
  Sampled =>
    /\ ~IsFinite(curve.y) => (curve.op = "skip" /\ ~curve.started)
    /\ curve.op = "lineTo" => (IsFinite(curve.y) /\ curve.prevOp \in {"moveTo", "lineTo"})
    /\ (curve.text = TxtLog /\ JLeq(curve.x, Num(0))) => curve.op = "skip"

(* a finite sample after one that is not finite: 1/x right of the sample   *)
(* at 0                                                                    *)
C16_PathResumed ==
  /\ Sampled /\ curve.text = TxtRecip /\ curve.prevX = Num(0)
  /\ curve.prevOp = "skip" /\ curve.op = "moveTo"

(* C15: for abs(x) over a domain with 0 in its interior, the pass over the *)
(* derivative finds a corner at x = 0 and draws two hole markers there,    *)
(* one at slope -1 and one at slope +1.                                    *)
C15_CornerMarkedAtZero ==
  (holes.stage = "done" /\ holes.text = TxtAbs) =>
    /\ \E k \in 1..Len(holes.marks) : holes.marks[k] = <<Num(0), Num(-1)>>
    /\ \E k \in 1..Len(holes.marks) : holes.marks[k] = <<Num(0), Num(1)>>

(* the sample handled last and the one before it are finite, and a subpath *)
(* was in progress when the last was reached                               *)
PairOfPoints ==
  /\ Sampled /\ curve.i > 1
  /\ curve.prevOp \in {"moveTo", "lineTo"} /\ IsFinite(curve.y)

(* |y - y_prev|, and the same relative to the larger of |y|, |y_prev| and  *)
(* 1e-9, for the last two samples                                          *)
LastAbsJump == MathAbs(JSub(curve.y, CallFn(curve.fn, curve.prevX)))
LastRelJump ==
  JDiv(LastAbsJump,
       MathMax(Fin(PEps(2, 10, 1)),
               MathMax(MathAbs(curve.y), MathAbs(CallFn(curve.fn, curve.prevX)))))

(* C21: in drawCurve of the first App, for two consecutive finite samples  *)
(* with a subpath in progress, the subpath is ended and a new one begun at *)
(* the current sample exactly when |y - y_prev| > 0.75 and                 *)
(* |y - y_prev| / max(1e-9, max(|y|, |y_prev|)) > 0.4; otherwise, also     *)
(* when only one of the two is exceeded, the sample extends the subpath.   *)
C21_BreakIffBothThresholds ==
  (PairOfPoints /\ curve.v = "App") =>
    /\ curve.op = "moveTo" <=>
         (JLess(Rat(3, 4), LastAbsJump) /\ JLess(Rat(2, 5), LastRelJump))
    /\ curve.op = "lineTo" <=>
         ~(JLess(Rat(3, 4), LastAbsJump) /\ JLess(Rat(2, 5), LastRelJump))

(* 1/x away from its pole: the absolute threshold alone is exceeded, and   *)
(* the sample extends the subpath                                          *)
C21_OnlyAbsoluteExceeded ==
  /\ PairOfPoints /\ curve.v = "App" /\ curve.text = TxtRecip
  /\ JLess(Rat(3, 4), LastAbsJump) /\ ~JLess(Rat(2, 5), LastRelJump)
  /\ curve.op = "lineTo"

(* x next to 0: the relative threshold alone is exceeded *)
OnlyRelativeExceeded ==
  /\ PairOfPoints /\ curve.v = "App" /\ curve.text = TxtX
  /\ ~JLess(Rat(3, 4), LastAbsJump) /\ JLess(Rat(2, 5), LastRelJump)
  /\ curve.op = "lineTo"

(* C22: for 1/x over [-5, 5] with 800 samples, the jump test of the first  *)
(* App cuts the path between no two consecutive samples that lie on the    *)
(* same side of x = 0.                                                     *)
C22_NoBreakBesideThePole ==
  (PairOfPoints /\ curve.v = "App" /\ curve.text = TxtRecip /\ curve.n = Num(800)
     /\ JLess(Num(0), JMul(curve.prevX, curve.x))) =>
    ~curve.cut /\ curve.op = "lineTo"

(* a sample of the pass over the derivative has been handled *)
HoleSampled == holes.stage \in {"loop", "done"} /\ holes.i > 1

(* f' at the sample handled last and at the one before it *)
LastSlope == CallFn(holes.df, holes.x)
SlopeBefore == CallFn(holes.df, linspace(holes.a, holes.b, holes.n, holes.i - 2))

(* C23: no subpath of the derivative curve joins two consecutive samples   *)
(* whose derivative values differ by more than 0.6 and, relative to the    *)
(* larger of them, by more than 0.35: no line is drawn across a jump of f' *)
(* or a corner of f such as that of abs(x) at 0.                           *)
C23_NoDerivativeLineAcrossJump ==
  (HoleSampled /\ holes.i > 2 /\ holes.op = "lineTo") =>
    ~(/\ JLess(Rat(3, 5), MathAbs(JSub(LastSlope, SlopeBefore)))
      /\ JLess(Rat(7, 20),
               JDiv(MathAbs(JSub(LastSlope, SlopeBefore)),
                    MathMax(Fin(PEps(2, 10, 1)),
                            MathMax(MathAbs(LastSlope), MathAbs(SlopeBefore))))))

(* C24: hole markers come in pairs.  Whenever the pass over the derivative *)
(* finds a corner at a sample x it draws exactly two markers at that x,    *)
(* the first at the left one-sided slope and the second at the right one,  *)
(* and ends the subpath in progress there; a sample without a corner adds  *)
(* no marker.                                                              *)
C24_HolesInPairs ==
  [][(holes.stage = "loop" /\ holes'.stage = "loop") =>
       IF holes'.corner
       THEN /\ IsFinite(holes'.left) /\ IsFinite(holes'.right)
            /\ holes'.marks = holes.marks \o <<<<holes'.x, holes'.left>>,
                                                <<holes'.x, holes'.right>>>>
            /\ holes'.x = linspace(holes.a, holes.b, holes.n, holes.i)
            /\ ~holes'.started
       ELSE holes'.marks = holes.marks]_vars

(* a corner has been found, and its two markers are the only ones so far *)
C24_CornerFlagged ==
  /\ HoleSampled /\ holes.corner /\ Len(holes.marks) = 2
  /\ holes.marks[1][2] # holes.marks[2][2]

(* C25: the subpaths of drawCurve partition the finite samples.  Every     *)
(* finite sample gets exactly one point (the first of a subpath, by        *)
(* moveTo, or the next of the subpath in progress, by lineTo) and a sample *)
(* that is not finite gets none; the points come in the order of the       *)
(* samples; every subpath begins with a point of its own; and two          *)
(* consecutive finite samples lie in different subpaths only if the jump   *)
(* test fired between them, which it does in the first App alone.          *)
C25_SubpathsPartitionSamples ==
  Sampled =>
    /\ IsFinite(curve.y) <=> curve.op \in {"moveTo", "lineTo"}
    /\ ~IsFinite(curve.y) <=> curve.op = "skip"
    /\ curve.x = SampleX([curve EXCEPT !.i = curve.i - 1])
    /\ curve.i > 1 => JLess(curve.prevX, curve.x)
    /\ curve.op = "moveTo" => (curve.fromX = curve.x /\ curve.paths >= 1)
    /\ curve.op = "lineTo" =>
         /\ curve.prevOp \in {"moveTo", "lineTo"}
         /\ curve.paths >= 1 /\ JLess(curve.fromX, curve.x)
    /\ (PairOfPoints /\ curve.op = "moveTo") =>
         /\ curve.v = "App"
         /\ JLess(Rat(3, 4), LastAbsJump) /\ JLess(Rat(2, 5), LastRelJump)

(* src/script.js has drawn 1/x over [-1, 1], whose sample at 0 is not      *)
(* finite, in two subpaths                                                 *)
C25_SplitAtUndefinedSample ==
  /\ curve.stage = "done" /\ curve.v = "DerivativeGrapher"
  /\ curve.text = TxtRecip /\ curve.paths = 2

(* the value of sample k of the effect that estimates yRange *)
EstimateSample(k) ==
  CallFn(estimate.fn, linspace(estimate.a, estimate.b, estimate.n, k))

(* C26: the range estimator evaluates at most 400 samples and returns a    *)
(* range with yMin < yMax that holds every finite sampled value strictly   *)
(* inside; when the least and the greatest finite sample differ, the       *)
(* bounds are min - pad and max + pad with pad = 0.1 * (max - min) + 1e-9. *)
C26_RangeEnclosesSamples ==
  /\ estimate.stage \in {"loop", "done"} => estimate.i <= 400
  /\ estimate.stage = "done" =>
       /\ JLess(estimate.out[1], estimate.out[2])
       /\ \A k \in 0..(estimate.i - 1) :
            IsFinite(EstimateSample(k)) =>
              /\ JLess(estimate.out[1], EstimateSample(k))
              /\ JLess(EstimateSample(k), estimate.out[2])
       /\ JLess(estimate.ymin, estimate.ymax) =>
            /\ estimate.out[1] =
                 JSub(estimate.ymin,
                      JAdd(JMul(Rat(1, 10), JSub(estimate.ymax, estimate.ymin)),
                           Fin(PEps(2, 10, 1))))
            /\ estimate.out[2] =
                 JAdd(estimate.ymax,
                      JAdd(JMul(Rat(1, 10), JSub(estimate.ymax, estimate.ymin)),
                           Fin(PEps(2, 10, 1))))

(* whether the number v is an integer *)
IsWhole(v) ==
  v.k = "fin" /\ (v.v = <<>> \/ (Len(v.v) = 1 /\ v.v[1][1] = 0 /\ v.v[1][3] = 1))

(* C27: for min < max, the step of niceTicks is m * 10^k with m one of 1,  *)
(* 2, 5 and k an integer, it is at most (max - min) / target, every tick   *)
(* returned is an integer multiple of the step, and every integer multiple *)
(* of the step within [min, max] is returned.                              *)
C27_TicksAreTheMultiplesOfTheStep ==
  (ticks.stage \in {"loop", "returned"} /\ JLess(ticks.min, ticks.max)) =>
    /\ \E k \in Decades, m \in {1, 2, 5} : ticks.step = JMul(Num(m), TenTo(k))
    /\ JLeq(JMul(Num(TickTarget), ticks.step), JSub(ticks.max, ticks.min))
    /\ \A i \in 1..Len(ticks.out) : IsWhole(JDiv(ticks.out[i], ticks.step))
    /\ ticks.stage = "returned" =>
         \A j \in (-PFloor(PNeg(JDiv(ticks.min, ticks.step).v)))
                    ..PFloor(JDiv(ticks.max, ticks.step).v) :
           \E i \in 1..Len(ticks.out) : ticks.out[i] = JMul(Num(j), ticks.step)

=============================================================================
